---- MODULE Spec2Model ----
(***************************************************************************)
(* Verification model of the fastapi-rs repository: the demonstration      *)
(* application (package app) and the forked framework (package fastapi).   *)
(*                                                                         *)
(* The repository is a collection of loosely coupled subsystems, so the    *)
(* module has one group of variables and one specification per subsystem:  *)
(*   SpecRetry     app/utils.py          retry_decorator                   *)
(*   SpecDuration  app/utils.py          parse_duration                    *)
(*   SpecItems     app/routers/item.py   item catalog handlers             *)
(*   SpecUsers     app/main.py, app/routers/user.py  registration          *)
(*   SpecTokens    app/auth.py           signed tokens                     *)
(*   SpecBridge    fastapi/_rust.py, params.py, encoders.py, security      *)
(*   SpecFallback  fastapi/_rust.py      functions with a Python fallback  *)
(*   SpecMatch     fastapi/_rust.py      match_route                       *)
(*   SpecDb        app/database.py       connection and transactions       *)
(*   SpecWeb       app/main.py           login, who-am-I, files            *)
(*   SpecRoute     fastapi/routing.py    HTTP and WebSocket route handlers *)
(*   SpecSchema    fastapi/params/schema.py  parameter schema loader       *)
(*   SpecRouter    fastapi/routing/http_methods.py  router inclusion       *)
(*   SpecDecorators app/utils.py         decorator dispatch, sync / async  *)
(* Every specification leaves the variables of the other groups at their   *)
(* initial values.                                                         *)
(***************************************************************************)
EXTENDS Integers, Sequences, FiniteSets, TLC

VARIABLES
    \* ---- retry_decorator (app/utils.py) ----
    r_pc,              \* position of the wrapper: idle / attempt / sleeping / returned / raised
    r_cfg,             \* [max_retries, delay, first_ok]: decorator arguments and the wrapped function
    r_attempt,         \* loop variable `attempt`
    r_calls,           \* number of invocations of func so far
    r_sleeps,          \* sequence of the durations passed to time.sleep
    r_last_exception,  \* local `last_exception` (0 stands for None)
    r_result,          \* what the wrapper returned or raised
    \* ---- parse_duration (app/utils.py) ----
    d_call,            \* last call of parse_duration: [input, outcome, value, groups]
    \* ---- item router (app/routers/item.py) ----
    items,             \* table of Item rows, by id
    utcnow,            \* wall clock read by datetime.utcnow()
    item_resp,         \* last response of an item handler
    last_toggle,       \* per item: the last successful delete/activate
    \* ---- registration (app/main.py, app/routers/user.py) ----
    users_table,       \* rows of the SQL table `users` (sequence, index = id)
    reg,               \* per register request: its position and locals
    orm_users,         \* rows of the ORM `User` store used by routers/user.py
    orm_resp,          \* last response of create_user
    first_reg,         \* per email: the data of the first registration that was accepted
    \* ---- tokens (app/auth.py) ----
    now,               \* wall clock, in minutes
    ticks,             \* number of clock advances so far
    tok,               \* the token at hand
    v_result,          \* result of the last verification of tok
    \* ---- native bridge (fastapi/_rust.py) and its callers ----
    ext,               \* the installed native extension, as the environment provides it
    RUST_LOADED,       \* _RUST_LOADED
    RUST_MODULE,       \* _RUST_MODULE
    FALLBACK_WARNINGS_SHOWN, \* _FALLBACK_WARNINGS_SHOWN (its key set)
    call_result,       \* outcome of the last framework call
    warnings_emitted,  \* per function name: fallback warnings emitted so far
    load_computed,     \* _load_rust_extension has run since the start or the last cleanup
    load_steps,        \* what the loader did during the last call: import, init
    \* ---- persistence (app/database.py) ----
    db_instance,       \* _db_connection: the DatabaseConnection wrapper, or None
    db_connection,     \* DatabaseConnection._connection: a connection id, or None
    db_opened,         \* number of aiosqlite connections opened so far
    db_stores,         \* the connection ids assigned to _connection, in order
    db_file,           \* the rows committed to the database file
    db_pending,        \* per connection: rows executed and not yet committed
    task,              \* per task: its position in `async with get_db_transaction()`
    \* ---- the demonstration API (app/main.py) ----
    issued_tokens,     \* the access tokens login has returned
    files_table,       \* rows of the SQL table `files` (sequence, index = id)
    web_resp,  \* last response of a handler of app/main.py
    \* ---- route handlers (fastapi/routing.py, fastapi/routing/websocket.py) ----
    http_result,
    ws,
    \* ---- parameter schema loader (fastapi/params/schema.py) ----
    fs,
    fs_clock,
    schema_cache,
    schema_file_mtime,
    load_result,
    \* ---- router inclusion (fastapi/routing/http_methods.py) ----
    route_objs,
    routers,
    included,
    includes,
    \* ---- decorators applied to sync and async functions (app/utils.py) ----
    a_pc,
    a_func,
    a_wrapper,
    a_attempt,
    a_runs,
    a_sleeps,
    a_log,
    a_result

retryVars == <<r_pc, r_cfg, r_attempt, r_calls, r_sleeps, r_last_exception, r_result>>
durVars == <<d_call>>
itemVars == <<items, utcnow, item_resp, last_toggle>>
userVars == <<users_table, reg, orm_users, orm_resp, first_reg>>
tokVars == <<now, ticks, tok, v_result>>
bridgeVars == <<ext, RUST_LOADED, RUST_MODULE, FALLBACK_WARNINGS_SHOWN, call_result,
                warnings_emitted, load_computed, load_steps>>
dbVars == <<db_instance, db_connection, db_opened, db_stores, db_file, db_pending, task>>
webVars == <<issued_tokens, files_table, web_resp>>
routeVars == <<http_result, ws>>
schemaVars == <<fs, fs_clock, schema_cache, schema_file_mtime, load_result>>
routerVars == <<route_objs, routers, included, includes>>
asyncVars == <<a_pc, a_func, a_wrapper, a_attempt, a_runs, a_sleeps, a_log, a_result>>
vars == <<retryVars, durVars, itemVars, userVars, tokVars, bridgeVars, dbVars, webVars, routeVars, schemaVars, routerVars, asyncVars>>

None == "None"

(***************************************************************************)
(* retry_decorator.sync_wrapper                                            *)
(***************************************************************************)
MaxRetries == 3
MaxDelay == 2
NeverSucceeds == -1

\* range(max_retries + 1): the number of iterations of the retry loop
\* faulty variant: range(max_retries), one iteration short
Attempts_short(max_retries) == max_retries
Attempts(max_retries) == max_retries + 1

\* delay * (2 ** attempt)
\* faulty variant: linear instead of exponential growth
Backoff_linear(delay, attempt) == delay * (attempt + 1)
Backoff(delay, attempt) == delay * (2 ^ attempt)

\* the wrapped function: raises on every call before its first success
FuncRaises(attempt) ==
    \/ r_cfg.first_ok = NeverSucceeds
    \/ attempt < r_cfg.first_ok

RetryInit ==
    /\ r_pc = "idle"
    /\ r_cfg = [max_retries |-> 0, delay |-> 1, first_ok |-> NeverSucceeds]
    /\ r_attempt = 0
    /\ r_calls = 0
    /\ r_sleeps = <<>>
    /\ r_last_exception = 0
    /\ r_result = [kind |-> "none", of_call |-> 0]

\* the wrapper is called: last_exception = None, the loop starts at attempt 0
RetryStart(mr, d, k) ==
    /\ r_pc \in {"idle", "returned", "raised"}
    /\ r_cfg' = [max_retries |-> mr, delay |-> d, first_ok |-> k]
    /\ r_attempt' = 0
    /\ r_calls' = 0
    /\ r_sleeps' = <<>>
    /\ r_last_exception' = 0
    /\ r_result' = [kind |-> "none", of_call |-> 0]
    /\ r_pc' = IF 0 < Attempts(mr) THEN "attempt" ELSE "raised"
    /\ UNCHANGED <<durVars, itemVars, userVars, tokVars, bridgeVars, dbVars, webVars, routeVars, schemaVars, routerVars, asyncVars>>

\* one iteration of the loop up to its sleep: func is invoked; on success the
\* wrapper returns; on an exception it is kept in last_exception and either a
\* retry is logged (then the sleep follows) or the final failure is logged
RetryInvoke ==
    /\ r_pc = "attempt"
    /\ r_calls' = r_calls + 1
    /\ UNCHANGED <<r_cfg, r_sleeps>>
    /\ IF ~FuncRaises(r_attempt)
       THEN /\ r_pc' = "returned"
            /\ r_result' = [kind |-> "value", of_call |-> r_calls + 1]
            /\ UNCHANGED <<r_attempt, r_last_exception>>
       ELSE /\ r_last_exception' = r_calls + 1
            /\ IF r_attempt < r_cfg.max_retries
               THEN /\ r_pc' = "sleeping"
                    /\ UNCHANGED <<r_attempt, r_result>>
               ELSE IF r_attempt + 1 < Attempts(r_cfg.max_retries)
                    THEN /\ r_pc' = "attempt"
                         /\ r_attempt' = r_attempt + 1
                         /\ UNCHANGED r_result
                    ELSE /\ r_pc' = "raised"
                         /\ r_result' = [kind |-> "exception", of_call |-> r_last_exception']
                         /\ UNCHANGED r_attempt
    /\ UNCHANGED <<durVars, itemVars, userVars, tokVars, bridgeVars, dbVars, webVars, routeVars, schemaVars, routerVars, asyncVars>>

\* time.sleep(delay * 2 ** attempt), then the next iteration; after the last
\* iteration the loop is left and last_exception is raised
RetrySleep ==
    /\ r_pc = "sleeping"
    /\ r_sleeps' = Append(r_sleeps, Backoff(r_cfg.delay, r_attempt))
    /\ UNCHANGED <<r_cfg, r_calls, r_last_exception>>
    /\ IF r_attempt + 1 < Attempts(r_cfg.max_retries)
       THEN /\ r_pc' = "attempt"
            /\ r_attempt' = r_attempt + 1
            /\ UNCHANGED r_result
       ELSE /\ r_pc' = "raised"
            /\ r_result' = [kind |-> "exception", of_call |-> r_last_exception]
            /\ UNCHANGED r_attempt
    /\ UNCHANGED <<durVars, itemVars, userVars, tokVars, bridgeVars, dbVars, webVars, routeVars, schemaVars, routerVars, asyncVars>>

RetryNext ==
    \/ \E mr \in 0..MaxRetries, d \in 1..MaxDelay,
          k \in {NeverSucceeds} \cup (0..(MaxRetries + 1)) : RetryStart(mr, d, k)
    \/ RetryInvoke
    \/ RetrySleep

(***************************************************************************)
(* parse_duration                                                          *)
(***************************************************************************)
MaxDurLen == 3

\* the characters the inputs are built from: digits, unit letters in both
\* cases, a letter that belongs to no unit, and white space
DurChars == {"0", "1", "2", "d", "D", "h", "s", "x", " "}
DurDigits == {"0", "1", "2"}
DurSpace == {" "}

DurStrings == UNION {[1..n -> DurChars] : n \in 0..MaxDurLen}

\* re.IGNORECASE
Lower(c) == IF c = "D" THEN "d" ELSE c

DigitVal(c) == CASE c = "0" -> 0 [] c = "1" -> 1 [] c = "2" -> 2 [] OTHER -> 0

\* str.strip(): leading and trailing white space removed
RECURSIVE LStrip(_)
LStrip(s) == IF s # <<>> /\ Head(s) \in DurSpace THEN LStrip(Tail(s)) ELSE s
RECURSIVE RStrip(_)
RStrip(s) ==
    IF s # <<>> /\ s[Len(s)] \in DurSpace THEN RStrip(SubSeq(s, 1, Len(s) - 1)) ELSE s
Strip(s) == RStrip(LStrip(s))

\* greedy repetition: the first position at or after pos whose character is
\* not in the class
RECURSIVE SkipWhile(_, _, _)
SkipWhile(s, pos, class) ==
    IF pos <= Len(s) /\ Lower(s[pos]) \in class THEN SkipWhile(s, pos + 1, class) ELSE pos

\* int() of the digits s[from..to]
RECURSIVE IntOf(_, _, _)
IntOf(s, from, to) ==
    IF to < from THEN 0 ELSE IntOf(s, from, to - 1) * 10 + DigitVal(s[to])

\* a group that did not take part in the match (None)
NoGroup == -1

\* one optional group (?:(\d+)\s*u[suffix]*)? tried at pos
DurComponent(s, pos, unit, suffix) ==
    LET e == SkipWhile(s, pos, DurDigits)
        sp == SkipWhile(s, e, DurSpace)
    IN  IF e > pos /\ sp <= Len(s) /\ Lower(s[sp]) = unit
        THEN [group |-> IntOf(s, pos, e - 1), next |-> SkipWhile(s, sp + 1, suffix)]
        ELSE [group |-> NoGroup, next |-> pos]

\* duration_regex.match(s): the four optional groups in their fixed order,
\* anchored at the start only; every group being optional, the pattern
\* matches every string (possibly the empty prefix)
DurationMatch(s) ==
    LET g1 == DurComponent(s, 1, "d", {"a", "y", "s"})
        g2 == DurComponent(s, g1.next, "h", {"o", "u", "r", "s"})
        g3 == DurComponent(s, g2.next, "m", {"i", "n", "u", "t", "e", "s"})
        g4 == DurComponent(s, g3.next, "s", {"e", "c", "o", "n", "d", "s"})
    IN  [matched |-> TRUE, groups |-> <<g1.group, g2.group, g3.group, g4.group>>]

\* parse_duration(duration_str)
parse_duration(duration_str) ==
    LET match == DurationMatch(Strip(duration_str))
        g == match.groups
    IN  IF ~match.matched
        THEN [outcome |-> "ValueError", value |-> 0, groups |-> <<>>]
        ELSE [outcome |-> "returned",
              value |-> (IF g[1] # NoGroup THEN g[1] * 24 * 3600 ELSE 0)
                      + (IF g[2] # NoGroup THEN g[2] * 3600 ELSE 0)
                      + (IF g[3] # NoGroup THEN g[3] * 60 ELSE 0)
                      + (IF g[4] # NoGroup THEN g[4] ELSE 0),
              groups |-> g]

NoDurCall(s) == [input |-> s, outcome |-> "none", value |-> 0, groups |-> <<>>]

\* the argument of the call is any string over the alphabet
DurInit == \E s \in DurStrings : d_call = NoDurCall(s)

\* the call parse_duration(d_call.input)
ParseDuration ==
    /\ d_call.outcome = "none"
    /\ d_call' = [input |-> d_call.input] @@ parse_duration(d_call.input)
    /\ UNCHANGED <<retryVars, itemVars, userVars, tokVars, bridgeVars, dbVars, webVars, routeVars, schemaVars, routerVars, asyncVars>>

DurNext == ParseDuration

(***************************************************************************)
(* Item catalog router                                                     *)
(***************************************************************************)
MaxItems == 1
MaxClock == 1

\* the authenticated callers injected as current_user: two ordinary users
\* and a superuser
Callers == {[id |-> 1, is_superuser |-> FALSE],
            [id |-> 2, is_superuser |-> FALSE],
            [id |-> 3, is_superuser |-> TRUE]}

\* the callers who create items
Creators == {c \in Callers : ~c.is_superuser}

\* free text offered as title or description; "bad" is rejected by the
\* facade's content validator
Texts == {"a", "bad"}
validate_text_content(text) == text # "bad"

\* the bodies of PUT /items/{id}: only the supplied fields are present
\* (item_update.dict(exclude_unset=True))
UpdateBodies ==
    {[title |-> t, description |-> d] : t \in {"unset", "b", "bad"},
                                        d \in {"unset", "bad"}}
    \cup {[title |-> "unset", description |-> None]}

\* Query(100, ge=1, le=1000)
DefaultLimit == 100

NoCaller == [id |-> 0, is_superuser |-> FALSE]
NoResp == [op |-> "none", caller |-> NoCaller, id |-> 0, status |-> "none", body |-> None]

\* db.query(Item).filter(Item.id == item_id).first()
NoItem == [missing |-> TRUE]
FindItem(item_id) == IF item_id \in DOMAIN items THEN items[item_id] ELSE NoItem

\* item.owner_id != current_user.id and not current_user.is_superuser
\* faulty variant: the negation of is_superuser dropped
NotAuthorized_noneg(item, current_user) ==
    item.owner_id # current_user.id /\ current_user.is_superuser
NotAuthorized(item, current_user) ==
    item.owner_id # current_user.id /\ ~current_user.is_superuser

\* item.is_active = False; item.updated_at = datetime.utcnow()
\* faulty variant: the flag is not cleared
SoftDelete_stamp_only(item, t) == [item EXCEPT !.updated_at = t]
SoftDelete(item, t) == [item EXCEPT !.is_active = FALSE, !.updated_at = t]

\* item.is_active = True; item.updated_at = datetime.utcnow()
Reactivate(item, t) == [item EXCEPT !.is_active = TRUE, !.updated_at = t]

\* for field, value in update_data.items(): setattr(item, field, value)
ApplyUpdate(item, update_data, t) ==
    [item EXCEPT !.title = IF update_data.title # "unset" THEN update_data.title ELSE @,
                 !.description = IF update_data.description # "unset"
                                 THEN update_data.description ELSE @,
                 !.updated_at = t]

\* a row holds the columns the handlers below read or write after creation;
\* price, category and created_at are set once and left out
ItemInit ==
    /\ items = <<>>
    /\ utcnow = 0
    /\ item_resp = NoResp
    /\ last_toggle = <<>>

\* time passes
ItemTick ==
    /\ utcnow < MaxClock
    /\ utcnow' = utcnow + 1
    /\ UNCHANGED <<items, item_resp, last_toggle>>
    /\ UNCHANGED <<retryVars, durVars, userVars, tokVars, bridgeVars, dbVars, webVars, routeVars, schemaVars, routerVars, asyncVars>>

\* POST /items/
create_item(current_user, title, description) ==
    /\ Len(items) < MaxItems
    /\ IF ~validate_text_content(title)
       THEN /\ item_resp' = [op |-> "create", caller |-> current_user, id |-> 0,
                             status |-> "bad_request", body |-> None]
            /\ UNCHANGED <<items, last_toggle>>
       ELSE IF description # None /\ ~validate_text_content(description)
       THEN /\ item_resp' = [op |-> "create", caller |-> current_user, id |-> 0,
                             status |-> "bad_request", body |-> None]
            /\ UNCHANGED <<items, last_toggle>>
       ELSE /\ items' = Append(items, [title |-> title, description |-> description,
                                       is_active |-> TRUE, owner_id |-> current_user.id,
                                       updated_at |-> utcnow])
            /\ last_toggle' = Append(last_toggle, "none")
            /\ item_resp' = [op |-> "create", caller |-> current_user,
                             id |-> Len(items) + 1, status |-> "ok", body |-> None]
    /\ UNCHANGED utcnow
    /\ UNCHANGED <<retryVars, durVars, userVars, tokVars, bridgeVars, dbVars, webVars, routeVars, schemaVars, routerVars, asyncVars>>

\* the rows a listing returns, in id order: the filters, then offset/limit
RECURSIVE FilterIds(_, _, _)
FilterIds(n, active_only, owner_id) ==
    IF n = 0 THEN <<>>
    ELSE LET rest == FilterIds(n - 1, active_only, owner_id)
             keep == /\ (active_only => items[n].is_active = TRUE)
                     /\ (owner_id # 0 => items[n].owner_id = owner_id)
         IN  IF keep THEN Append(rest, n) ELSE rest

Page(rows, skip, limit) ==
    SubSeq(rows, skip + 1, IF skip + limit < Len(rows) THEN skip + limit ELSE Len(rows))

\* GET /items/ without category, price or search filter
list_items(skip, limit, active_only, owner_id) ==
    /\ LET rows == FilterIds(Len(items), active_only, owner_id)
       IN  item_resp' = [op |-> "list", caller |-> NoCaller, id |-> 0, status |-> "ok",
                         body |-> [items |-> Page(rows, skip, limit), total |-> Len(rows),
                                   skip |-> skip, limit |-> limit,
                                   active_only |-> active_only, owner_id |-> owner_id]]
    /\ UNCHANGED <<items, utcnow, last_toggle>>
    /\ UNCHANGED <<retryVars, durVars, userVars, tokVars, bridgeVars, dbVars, webVars, routeVars, schemaVars, routerVars, asyncVars>>

\* GET /items/{item_id}
get_item(item_id) ==
    /\ LET item == FindItem(item_id)
       IN  item_resp' = [op |-> "get", caller |-> NoCaller, id |-> item_id,
                         status |-> IF item = NoItem THEN "not_found" ELSE "ok",
                         body |-> item]
    /\ UNCHANGED <<items, utcnow, last_toggle>>
    /\ UNCHANGED <<retryVars, durVars, userVars, tokVars, bridgeVars, dbVars, webVars, routeVars, schemaVars, routerVars, asyncVars>>

\* PUT /items/{item_id}
update_item(item_id, item_update, current_user) ==
    /\ LET item == FindItem(item_id)
           Resp(st) == [op |-> "update", caller |-> current_user, id |-> item_id,
                        status |-> st, body |-> item_update]
       IN  IF item = NoItem
           THEN item_resp' = Resp("not_found") /\ UNCHANGED items
           ELSE IF NotAuthorized(item, current_user)
           THEN item_resp' = Resp("unauthorized") /\ UNCHANGED items
           ELSE IF item_update.title # "unset" /\ ~validate_text_content(item_update.title)
           THEN item_resp' = Resp("bad_request") /\ UNCHANGED items
           ELSE IF /\ item_update.description \notin {"unset", None}
                   /\ ~validate_text_content(item_update.description)
           THEN item_resp' = Resp("bad_request") /\ UNCHANGED items
           ELSE /\ items' = [items EXCEPT ![item_id] = ApplyUpdate(item, item_update, utcnow)]
                /\ item_resp' = Resp("ok")
    /\ UNCHANGED <<utcnow, last_toggle>>
    /\ UNCHANGED <<retryVars, durVars, userVars, tokVars, bridgeVars, dbVars, webVars, routeVars, schemaVars, routerVars, asyncVars>>

\* DELETE /items/{item_id}
delete_item(item_id, current_user) ==
    /\ LET item == FindItem(item_id)
           Resp(st) == [op |-> "delete", caller |-> current_user, id |-> item_id,
                        status |-> st, body |-> None]
       IN  IF item = NoItem
           THEN item_resp' = Resp("not_found") /\ UNCHANGED <<items, last_toggle>>
           ELSE IF NotAuthorized(item, current_user)
           THEN item_resp' = Resp("unauthorized") /\ UNCHANGED <<items, last_toggle>>
           ELSE /\ items' = [items EXCEPT ![item_id] = SoftDelete(item, utcnow)]
                /\ last_toggle' = [last_toggle EXCEPT ![item_id] = "delete"]
                /\ item_resp' = Resp("ok")
    /\ UNCHANGED utcnow
    /\ UNCHANGED <<retryVars, durVars, userVars, tokVars, bridgeVars, dbVars, webVars, routeVars, schemaVars, routerVars, asyncVars>>

\* POST /items/{item_id}/activate
activate_item(item_id, current_user) ==
    /\ LET item == FindItem(item_id)
           Resp(st) == [op |-> "activate", caller |-> current_user, id |-> item_id,
                        status |-> st, body |-> None]
       IN  IF item = NoItem
           THEN item_resp' = Resp("not_found") /\ UNCHANGED <<items, last_toggle>>
           ELSE IF NotAuthorized(item, current_user)
           THEN item_resp' = Resp("unauthorized") /\ UNCHANGED <<items, last_toggle>>
           ELSE /\ items' = [items EXCEPT ![item_id] = Reactivate(item, utcnow)]
                /\ last_toggle' = [last_toggle EXCEPT ![item_id] = "activate"]
                /\ item_resp' = Resp("ok")
    /\ UNCHANGED utcnow
    /\ UNCHANGED <<retryVars, durVars, userVars, tokVars, bridgeVars, dbVars, webVars, routeVars, schemaVars, routerVars, asyncVars>>

ItemNext ==
    \/ ItemTick
    \/ \E u \in Creators, t \in Texts, d \in {None, "bad"} : create_item(u, t, d)
    \/ \E a \in BOOLEAN, o \in {0, 1} : list_items(0, DefaultLimit, a, o)
    \/ \E i \in 1..MaxItems : get_item(i)
    \/ \E i \in 1..MaxItems, b \in UpdateBodies, u \in Callers : update_item(i, b, u)
    \/ \E i \in 1..MaxItems, u \in Callers : delete_item(i, u)
    \/ \E i \in 1..MaxItems, u \in Callers : activate_item(i, u)

(***************************************************************************)
(* Registration: POST /register (app/main.py) on the SQL table `users`,    *)
(* and POST /users/ (app/routers/user.py) on the ORM store                 *)
(***************************************************************************)
NumRegs == 2
MaxOrmUsers == 2

Regs == 1..NumRegs
Emails == {"e1", "e2"}
\* the password and full name a registration carries
Profiles == {[password |-> "Passw0rd1", full_name |-> "n1"],
             [password |-> "Passw0rd2", full_name |-> "n2"]}

\* the facade's password hash, a function of the password
hash_password(password) == <<"hash", password>>

\* the facade's email format check: "bad" stands for a malformed address
validate_email(email) == email # "bad"

IdleReg == [pc |-> "idle", email |-> None, password |-> None, full_name |-> None,
            status |-> "none", user_id |-> 0, done_before |-> {}]

NoRowId == 0
NoRegData == [full_name |-> None, hashed_password |-> <<>>]

\* db.fetch_one("SELECT id FROM users WHERE email = ?", (email,)): the id of
\* the row with that email, or None
SelectIdByEmail(email) ==
    IF \E i \in DOMAIN users_table : users_table[i].email = email
    THEN CHOOSE i \in DOMAIN users_table : users_table[i].email = email
    ELSE NoRowId

\* email TEXT UNIQUE NOT NULL: an INSERT of an email already in the table fails
\* faulty variant: the column is not declared UNIQUE
UniqueViolation_never(table, email) == FALSE
UniqueViolation(table, email) == \E i \in DOMAIN table : table[i].email = email

\* the existence check of register_user: `if existing_user`
\* faulty variant: the check never fires
EmailTaken_never(existing_user) == FALSE
EmailTaken(existing_user) == existing_user # NoRowId

\* the existence check of create_user: `if existing_user`
OrmEmailTaken(store, email) == \E i \in DOMAIN store : store[i].email = email

UserInit ==
    /\ users_table = <<>>
    /\ reg = [r \in Regs |-> IdleReg]
    /\ orm_users = <<>>
    /\ orm_resp = [op |-> "none", email |-> None, status |-> "none"]
    /\ first_reg = [e \in Emails |-> NoRegData]

\* the demonstration API (app/main.py) and the user router are two
\* deployments with a store each: a run exercises one of them
SqlDeployment == orm_users = <<>> /\ orm_resp.op = "none"
OrmDeployment == users_table = <<>> /\ \A r \in Regs : reg[r].pc = "idle"

\* register_user up to its second suspension point: the SELECT has run, a
\* taken email is answered with 400, otherwise the password is hashed and the
\* INSERT is about to be awaited
RegisterCheck(r, email, password, full_name) ==
    /\ SqlDeployment
    /\ reg[r].pc = "idle"
    /\ LET existing_user == SelectIdByEmail(email)
           started == [IdleReg EXCEPT !.email = email, !.password = password,
                                      !.full_name = full_name,
                                      !.done_before = {q \in Regs : reg[q].pc = "done"}]
       IN  IF EmailTaken(existing_user)
           THEN reg' = [reg EXCEPT ![r] = [started EXCEPT !.pc = "done",
                                                          !.status = "email_taken"]]
           ELSE reg' = [reg EXCEPT ![r] = [started EXCEPT !.pc = "inserting"]]
    /\ UNCHANGED <<users_table, orm_users, orm_resp, first_reg>>
    /\ UNCHANGED <<retryVars, durVars, itemVars, tokVars, bridgeVars, dbVars, webVars, routeVars, schemaVars, routerVars, asyncVars>>

\* db.execute(INSERT ...): conn.execute, conn.commit, cursor.lastrowid, then
\* the response is built
RegisterInsert(r) ==
    /\ reg[r].pc = "inserting"
    /\ IF UniqueViolation(users_table, reg[r].email)
       THEN /\ reg' = [reg EXCEPT ![r].pc = "done", ![r].status = "integrity_error"]
            /\ UNCHANGED users_table
       ELSE /\ users_table' = Append(users_table,
                                     [email |-> reg[r].email,
                                      password_hash |-> hash_password(reg[r].password),
                                      full_name |-> reg[r].full_name])
            /\ reg' = [reg EXCEPT ![r].pc = "done", ![r].status = "ok",
                                  ![r].user_id = Len(users_table) + 1]
    /\ UNCHANGED <<orm_users, orm_resp, first_reg>>
    /\ UNCHANGED <<retryVars, durVars, itemVars, tokVars, bridgeVars, dbVars, webVars, routeVars, schemaVars, routerVars, asyncVars>>

\* POST /users/ : the handler has no suspension point
create_user(email, username, full_name, password) ==
    /\ OrmDeployment
    /\ Len(orm_users) <= MaxOrmUsers
    /\ IF ~validate_email(email)
       THEN /\ orm_resp' = [op |-> "create", email |-> email, status |-> "bad_request"]
            /\ UNCHANGED <<orm_users, first_reg>>
       ELSE IF OrmEmailTaken(orm_users, email)
       THEN /\ orm_resp' = [op |-> "create", email |-> email, status |-> "duplicate_email"]
            /\ UNCHANGED <<orm_users, first_reg>>
       ELSE /\ orm_users' = Append(orm_users,
                                   [email |-> email, username |-> username,
                                    full_name |-> full_name,
                                    hashed_password |-> hash_password(password),
                                    is_active |-> TRUE])
            /\ orm_resp' = [op |-> "create", email |-> email, status |-> "ok"]
            /\ first_reg' = IF first_reg[email] = NoRegData
                            THEN [first_reg EXCEPT ![email] =
                                     [full_name |-> full_name,
                                      hashed_password |-> hash_password(password)]]
                            ELSE first_reg
    /\ UNCHANGED <<users_table, reg>>
    /\ UNCHANGED <<retryVars, durVars, itemVars, tokVars, bridgeVars, dbVars, webVars, routeVars, schemaVars, routerVars, asyncVars>>

UserNext ==
    \/ \E r \in Regs, e \in Emails, p \in Profiles :
          RegisterCheck(r, e, p.password, p.full_name)
    \/ \E r \in Regs : RegisterInsert(r)
    \/ \E e \in Emails \cup {"bad"}, p \in Profiles :
          create_user(e, "u", p.full_name, p.password)

(***************************************************************************)
(* Signed tokens (app/auth.py).  Time is counted in minutes.  A token is   *)
(* the record of what jwt.encode signed: the claims (a record holding only *)
(* the claims that are present) and the signing key; the fields issued_by  *)
(* and issued_at are history, not readable by the verifier.                *)
(***************************************************************************)
MaxTicks == 3
ACCESS_TOKEN_EXPIRE_MINUTES == 30
RESET_TOKEN_EXPIRE_MINUTES == 60
TickSteps == {1, ACCESS_TOKEN_EXPIRE_MINUTES, RESET_TOKEN_EXPIRE_MINUTES}

SECRET_KEY == "secret"
Subjects == {"alice", "user@example.com"}

\* dict.get(key): None for a missing key
Get(d, key) == IF key \in DOMAIN d THEN d[key] ELSE None

\* the payloads create_access_token is called with: a subject, or none
AccessData == {[sub |-> s] : s \in Subjects} \cup {[scopes |-> <<>>]}

\* expires_delta: None, or a timedelta of so many minutes
NoDelta == [given |-> FALSE, minutes |-> 0]
ExpiresDeltas == {NoDelta} \cup {[given |-> TRUE, minutes |-> m] : m \in {0, -1, 5}}

Garbage == [form |-> "garbage", key |-> "none", claims |-> [junk |-> TRUE],
            issued_by |-> "other", issued_at |-> 0]

\* jwt.encode(to_encode, key, algorithm=ALGORITHM)
jwt_encode(claims, key, by, at) ==
    [form |-> "jwt", key |-> key, claims |-> claims, issued_by |-> by, issued_at |-> at]

\* jwt.decode(token, SECRET_KEY, algorithms=[ALGORITHM]): JWTError for a
\* malformed token, a bad signature or an expiry before the current time
jwt_decode(token, key, t) ==
    IF token.form # "jwt" \/ token.key # key
    THEN [error |-> "JWTError", payload |-> <<>>]
    ELSE IF "exp" \in DOMAIN token.claims /\ token.claims.exp < t
    THEN [error |-> "JWTError", payload |-> <<>>]
    ELSE [error |-> "none", payload |-> token.claims]

\* create_access_token(data, expires_delta): `if expires_delta` is false for
\* None and for a zero timedelta
create_access_token(data, expires_delta, t) ==
    LET expire == IF expires_delta.given /\ expires_delta.minutes # 0
                  THEN t + expires_delta.minutes
                  ELSE t + ACCESS_TOKEN_EXPIRE_MINUTES
    IN  jwt_encode([exp |-> expire] @@ data, SECRET_KEY, "create_access_token", t)

\* generate_reset_token(email)
generate_reset_token(email, t) ==
    jwt_encode([sub |-> email, exp |-> t + RESET_TOKEN_EXPIRE_MINUTES, type |-> "reset"],
               SECRET_KEY, "generate_reset_token", t)

\* `if username is None`
\* faulty variant: a missing subject goes unnoticed
SubjectMissing_never(username) == FALSE
SubjectMissing(username) == username = None

\* verify_token(token)
verify_token(token, t) ==
    LET d == jwt_decode(token, SECRET_KEY, t)
    IN  IF d.error # "none"
        THEN [outcome |-> "HTTP_401", value |-> None]
        ELSE IF SubjectMissing(Get(d.payload, "sub"))
        THEN [outcome |-> "HTTP_401", value |-> None]
        ELSE [outcome |-> "returned", value |-> Get(d.payload, "sub")]

\* `token_type != "reset"`
\* faulty variant: the type claim is not looked at
WrongType_never(token_type) == FALSE
WrongType(token_type) == token_type # "reset"

\* verify_reset_token(token)
verify_reset_token(token, t) ==
    LET d == jwt_decode(token, SECRET_KEY, t)
    IN  IF d.error # "none"
        THEN [outcome |-> "returned", value |-> None]
        ELSE IF Get(d.payload, "sub") = None \/ WrongType(Get(d.payload, "type"))
        THEN [outcome |-> "returned", value |-> None]
        ELSE [outcome |-> "returned", value |-> Get(d.payload, "sub")]

\* tokens that were not issued by this module: undecodable text, tokens
\* signed with another key, and tokens signed with the shared secret that
\* carry another type, no type, no subject or no expiry
ForeignClaims ==
    LET subs == {<<>>, [sub |-> "alice"]}
        exps == {<<>>, [exp |-> 0], [exp |-> 100]}
        types == {<<>>, [type |-> "reset"], [type |-> "refresh"]}
    IN  {(a @@ b) @@ c : a \in subs, b \in exps, c \in types}

ForeignTokens ==
    {Garbage} \cup {jwt_encode(c, k, "other", 0) : c \in ForeignClaims,
                                                  k \in {SECRET_KEY, "forged"}}

NoResult == [fn |-> "none", at |-> 0, outcome |-> "none", value |-> None]

TokInit ==
    /\ now = 0
    /\ ticks = 0
    /\ tok = Garbage
    /\ v_result = NoResult

TokTick(d) ==
    /\ ticks < MaxTicks
    /\ ticks' = ticks + 1
    /\ now' = now + d
    /\ UNCHANGED <<tok, v_result>>
    /\ UNCHANGED <<retryVars, durVars, itemVars, userVars, bridgeVars, dbVars, webVars, routeVars, schemaVars, routerVars, asyncVars>>

\* a token is issued by create_access_token
IssueAccessToken(data, expires_delta) ==
    /\ tok' = create_access_token(data, expires_delta, now)
    /\ v_result' = NoResult
    /\ UNCHANGED <<now, ticks>>
    /\ UNCHANGED <<retryVars, durVars, itemVars, userVars, bridgeVars, dbVars, webVars, routeVars, schemaVars, routerVars, asyncVars>>

\* a token is issued by generate_reset_token
IssueResetToken(email) ==
    /\ tok' = generate_reset_token(email, now)
    /\ v_result' = NoResult
    /\ UNCHANGED <<now, ticks>>
    /\ UNCHANGED <<retryVars, durVars, itemVars, userVars, bridgeVars, dbVars, webVars, routeVars, schemaVars, routerVars, asyncVars>>

\* a client presents a token of its own making
PresentForeignToken(t) ==
    /\ tok' = t
    /\ v_result' = NoResult
    /\ UNCHANGED <<now, ticks>>
    /\ UNCHANGED <<retryVars, durVars, itemVars, userVars, bridgeVars, dbVars, webVars, routeVars, schemaVars, routerVars, asyncVars>>

VerifyToken ==
    /\ v_result' = [fn |-> "verify_token", at |-> now] @@ verify_token(tok, now)
    /\ UNCHANGED <<now, ticks, tok>>
    /\ UNCHANGED <<retryVars, durVars, itemVars, userVars, bridgeVars, dbVars, webVars, routeVars, schemaVars, routerVars, asyncVars>>

VerifyResetToken ==
    /\ v_result' = [fn |-> "verify_reset_token", at |-> now] @@ verify_reset_token(tok, now)
    /\ UNCHANGED <<now, ticks, tok>>
    /\ UNCHANGED <<retryVars, durVars, itemVars, userVars, bridgeVars, dbVars, webVars, routeVars, schemaVars, routerVars, asyncVars>>

TokNext ==
    \/ \E d \in TickSteps : TokTick(d)
    \/ \E data \in AccessData, delta \in ExpiresDeltas : IssueAccessToken(data, delta)
    \/ \E e \in Subjects : IssueResetToken(e)
    \/ \E t \in ForeignTokens : PresentForeignToken(t)
    \/ VerifyToken
    \/ VerifyResetToken

(***************************************************************************)
(* JSON-able values: what jsonable_encoder is given and what it returns    *)
(***************************************************************************)
MaxSeqLen == 1

StrV(x) == [t |-> "str", v |-> x]
IntV(x) == [t |-> "int", v |-> x]
BoolV(x) == [t |-> "bool", v |-> x]
NoneV == [t |-> "NoneType"]
DictV(f) == [t |-> "dict", v |-> f]
SeqV(kind, s) == [t |-> kind, v |-> s]

Keys == {"k1", "k2"}
Prims == {StrV("a"), IntV(1), BoolV(TRUE), NoneV}

\* list, set, frozenset, deque, tuple
SeqKinds == {"list", "set", "frozenset", "deque", "tuple"}

\* all mappings from a subset of the keys to the given values
DictsOver(vals) == UNION {{DictV(f) : f \in [ks -> vals]} : ks \in SUBSET Keys}

\* all sequences of at most MaxSeqLen of the given values
SeqsOver(vals) == UNION {[1..n -> vals] : n \in 0..MaxSeqLen}

InnerDicts == {DictV(<<>>), DictV([k1 |-> NoneV]), DictV([k1 |-> NoneV, k2 |-> IntV(1)])}
InnerSeqs == {SeqV("tuple", <<DictV([k1 |-> NoneV])>>)}

\* the objects handed to the encoder: primitives, mappings of primitives,
\* of mappings and of sequences, and sequences of every container type
Values ==
    Prims
    \cup DictsOver(Prims \cup InnerDicts \cup InnerSeqs)
    \cup {SeqV(k, s) : k \in SeqKinds \cup {"generator"},
                       s \in SeqsOver({IntV(1), NoneV, SeqV("tuple", <<IntV(1)>>)})}

\* isinstance(obj, (str, int, float, type(None))); bool is a subclass of int
IsPrimitive(obj) == obj.t \in {"str", "int", "bool", "float", "NoneType"}

\* `if encoded_value is not None or not exclude_none`
\* faulty variant: exclude_none ignored
KeepKey_always(encoded_value, exclude_none) == TRUE
KeepKey(encoded_value, exclude_none) == encoded_value # NoneV \/ ~exclude_none

\* the Python implementation of jsonable_encoder (no include/exclude sets, no
\* custom encoder): primitives pass through, mappings and sequences are
\* encoded recursively with the same options, a generator is turned into a
\* list of its items
RECURSIVE PyEncode(_, _)
PyEncode(obj, exclude_none) ==
    IF IsPrimitive(obj) THEN obj
    ELSE IF obj.t = "dict"
    THEN LET kept == {k \in DOMAIN obj.v :
                        KeepKey(PyEncode(obj.v[k], exclude_none), exclude_none)}
         IN  DictV([k \in kept |-> PyEncode(obj.v[k], exclude_none)])
    ELSE IF obj.t \in SeqKinds
    THEN SeqV("list", [i \in 1..Len(obj.v) |-> PyEncode(obj.v[i], exclude_none)])
    ELSE SeqV("list", obj.v)

(***************************************************************************)
(* The native bridge (fastapi/_rust.py) and the framework functions that   *)
(* go through it (fastapi/params.py, fastapi/encoders.py,                  *)
(* fastapi/security/utils.py)                                              *)
(***************************************************************************)
\* the attributes the framework asks the extension module for
AllExports == {"rust_available", "get_rust_function", "RustSerialization",
               "RustSecurity", "constant_time_compare",
               "compile_path_regex", "validate_path_params",
               "validate_query_params", "match_route", "cleanup"}

\* the installations the process can find itself in
ExtConfigs ==
    {c \in [python_ok : BOOLEAN,
            import : {"ok", "ImportError", "Error"},
            init : {"missing", "true", "false", "raises"},
            exports : {AllExports, AllExports \ {"rust_available"}, {}}] :
        /\ c.import # "ok" => (c.python_ok /\ c.init = "missing" /\ c.exports = {})
        /\ ~c.python_ok => (c.init = "true" /\ c.exports = AllExports)
        /\ c.exports # AllExports => c.init \in {"true", "missing"}}

ExtensionAbsent == ext.import = "ImportError"

NoModule == "None"
TheModule == "_fastapi_rust"

\* _load_rust_extension(): the value returned, the globals afterwards and
\* the steps taken (import_module, init_rust_backend)
_load_rust_extension ==
    IF RUST_LOADED
    THEN [ret |-> RUST_MODULE, module |-> RUST_MODULE, loaded |-> RUST_LOADED,
          steps |-> {}]
    ELSE IF ~ext.python_ok
    THEN [ret |-> NoModule, module |-> RUST_MODULE, loaded |-> RUST_LOADED,
          steps |-> {}]
    ELSE IF ext.import # "ok"
    THEN [ret |-> NoModule, module |-> RUST_MODULE, loaded |-> RUST_LOADED,
          steps |-> {"import"}]
    ELSE IF ext.init = "raises"
    THEN [ret |-> NoModule, module |-> TheModule, loaded |-> RUST_LOADED,
          steps |-> {"import", "init"}]
    ELSE [ret |-> TheModule, module |-> TheModule, loaded |-> TRUE,
          steps |-> IF ext.init = "missing" THEN {"import"} ELSE {"import", "init"}]

\* _get_rust_function(func_name): found iff the module loaded and has the
\* attribute
_get_rust_function(func_name) ==
    LET l == _load_rust_extension
    IN  [found |-> l.ret # NoModule /\ func_name \in ext.exports,
         module |-> l.module, loaded |-> l.loaded, steps |-> l.steps]

\* module-level __getattr__(name), reached for every name the module does
\* not define itself: the extension's function, or AttributeError
ModuleGetattr(name) ==
    LET f == _get_rust_function(name)
    IN  [error |-> IF f.found THEN "none" ELSE "AttributeError",
         found |-> f.found, module |-> f.module, loaded |-> f.loaded,
         steps |-> f.steps]

\* the bridge-level functions with a Python fallback whose warnings are
\* counted in warnings_emitted
FallbackNames == {"compile_path_regex", "validate_path_params", "validate_query_params"}

NoCall == [fn |-> "none", outcome |-> "none", path |-> "none", args |-> <<>>, value |-> <<>>]

BridgeInit ==
    /\ ext \in ExtConfigs
    /\ RUST_LOADED = FALSE
    /\ RUST_MODULE = NoModule
    /\ FALLBACK_WARNINGS_SHOWN = {}
    /\ call_result = NoCall
    /\ warnings_emitted = [n \in FallbackNames |-> 0]
    /\ load_computed = FALSE
    /\ load_steps = {}

\* the globals after an attribute lookup on the bridge module
BridgeAfter(g) ==
    /\ RUST_MODULE' = g.module
    /\ RUST_LOADED' = g.loaded
    /\ load_computed' = TRUE
    /\ load_steps' = g.steps

Result(fn, outcome, path, args, value) ==
    [fn |-> fn, outcome |-> outcome, path |-> path, args |-> args, value |-> value]

\* fastapi.params.validate_path_params / validate_query_params /
\* validate_header_params: `_rust.rust_available()` is looked up and called
\* outside any try block; the native validator is called inside one
ValidateParams(function_name, says_available, native_valid) ==
    /\ LET a == ModuleGetattr("rust_available")
       IN  /\ BridgeAfter(a)
           /\ call_result' =
                IF a.error # "none"
                THEN Result(function_name, "AttributeError", "none", <<>>, <<>>)
                ELSE IF ~says_available
                THEN Result(function_name, "RuntimeError", "none", <<>>, <<>>)
                ELSE IF ModuleGetattr("get_rust_function").error # "none"
                THEN Result(function_name, "RustValidationError", "native", <<>>, <<>>)
                ELSE IF ~native_valid
                THEN Result(function_name, "RustValidationError", "native", <<>>, <<>>)
                ELSE Result(function_name, "returned", "native", <<>>, <<"validated_data">>)
    /\ UNCHANGED <<ext, FALLBACK_WARNINGS_SHOWN, warnings_emitted>>
    /\ UNCHANGED <<retryVars, durVars, itemVars, userVars, tokVars, dbVars, webVars, routeVars, schemaVars, routerVars, asyncVars>>

\* fastapi.encoders.jsonable_encoder(obj, exclude_none=...); native_raises:
\* the native encoder raises for obj and for every part of it, so that the
\* recursive calls of the Python implementation stay in Python as well
jsonable_encoder(obj, exclude_none, says_available, native_raises) ==
    /\ LET a == ModuleGetattr("rust_available")
           args == <<obj, exclude_none>>
       IN  /\ BridgeAfter(a)
           /\ call_result' =
                IF a.error # "none"
                THEN Result("jsonable_encoder", "AttributeError", "none", args, <<>>)
                ELSE IF /\ says_available
                        /\ ~exclude_none
                        /\ ModuleGetattr("RustSerialization").error = "none"
                        /\ ~native_raises
                THEN Result("jsonable_encoder", "returned", "native", args, <<"native">>)
                ELSE Result("jsonable_encoder", "returned", "python", args,
                            PyEncode(obj, exclude_none))
    /\ UNCHANGED <<ext, FALLBACK_WARNINGS_SHOWN, warnings_emitted>>
    /\ UNCHANGED <<retryVars, durVars, itemVars, userVars, tokVars, dbVars, webVars, routeVars, schemaVars, routerVars, asyncVars>>

\* fastapi.encoders.serialize_response(content) without content type: a
\* string is encoded as it is, anything else as the JSON text of the encoded
\* content
serialize_response(content, says_available, native_raises) ==
    /\ LET a == ModuleGetattr("rust_available")
           args == <<content>>
       IN  /\ BridgeAfter(a)
           /\ call_result' =
                IF a.error # "none"
                THEN Result("serialize_response", "AttributeError", "none", args, <<>>)
                ELSE IF /\ says_available
                        /\ ModuleGetattr("RustSerialization").error = "none"
                        /\ ~native_raises
                THEN Result("serialize_response", "returned", "native", args, <<"native">>)
                ELSE Result("serialize_response", "returned", "python", args,
                            IF content.t = "str"
                            THEN [utf8_of |-> content.v]
                            ELSE [json_bytes_of |-> PyEncode(content, FALSE)])
    /\ UNCHANGED <<ext, FALLBACK_WARNINGS_SHOWN, warnings_emitted>>
    /\ UNCHANGED <<retryVars, durVars, itemVars, userVars, tokVars, dbVars, webVars, routeVars, schemaVars, routerVars, asyncVars>>

\* fastapi.security.utils.constant_time_compare(a, b)
constant_time_compare(x, y, says_available, native_raises) ==
    /\ LET a == ModuleGetattr("rust_available")
           args == <<x, y>>
       IN  /\ BridgeAfter(a)
           /\ call_result' =
                IF a.error # "none"
                THEN Result("constant_time_compare", "AttributeError", "none", args, <<>>)
                ELSE IF /\ says_available
                        /\ ModuleGetattr("RustSecurity").error = "none"
                        /\ ~native_raises
                THEN Result("constant_time_compare", "returned", "native", args, <<"native">>)
                ELSE Result("constant_time_compare", "returned", "python", args, x = y)
    /\ UNCHANGED <<ext, FALLBACK_WARNINGS_SHOWN, warnings_emitted>>
    /\ UNCHANGED <<retryVars, durVars, itemVars, userVars, tokVars, dbVars, webVars, routeVars, schemaVars, routerVars, asyncVars>>

ValidatorNames == {"validate_path_params", "validate_query_params", "validate_header_params"}

\* the native function raises or not only in calls that reach it
BridgeNext ==
    \/ \E f \in ValidatorNames, av \in BOOLEAN, ok \in BOOLEAN : ValidateParams(f, av, ok)
    \/ \E obj \in Values, en \in BOOLEAN, av \in BOOLEAN, nr \in BOOLEAN :
          (nr => (av /\ ~en)) /\ jsonable_encoder(obj, en, av, nr)
    \/ \E c \in Prims, av \in BOOLEAN, nr \in BOOLEAN :
          (nr => av) /\ serialize_response(c, av, nr)
    \/ \E x \in {"abc", "abd"}, y \in {"abc", "abd"}, av \in BOOLEAN, nr \in BOOLEAN :
          (nr => av) /\ constant_time_compare(x, y, av, nr)

(***************************************************************************)
(* Path templates and patterns (fastapi/routing.py, fastapi/_rust.py).     *)
(* Strings are sequences of characters; offsets are Python's (0-based,     *)
(* end exclusive)                                                          *)
(***************************************************************************)
T_items == <<"/", "i", "t", "e", "m", "s">>
T_items_id == T_items \o <<"/", "{", "i", "t", "e", "m", "_", "i", "d", "}">>
T_two_params == <<"/", "{", "a", "}", "/", "{", "b", "}">>
\* /{a:\d+}
T_digits == <<"/", "{", "a", ":", "\\", "d", "+", "}">>
PathTemplates == {T_items, T_items_id, T_two_params, T_digits}

\* request paths: /items/42 and /items/
R_items_42 == T_items \o <<"/", "4", "2">>
R_items_slash == T_items \o <<"/">>

\* \w, and every character a template or a request path is made of
WordChars == {"i", "t", "e", "m", "s", "_", "d", "a", "b", "4", "2"}
PathChars == WordChars \cup {"/", "{", "}", ":", "\\", "+"}
Digits == {"4", "2"}

\* [^/]+
DefaultParamPattern == <<"[", "^", "/", "]", "+">>
\* \d+
DigitsPattern == <<"\\", "d", "+">>

\* greedy class repetition: the first position at or after pos whose
\* character is not in the class
RECURSIVE Span(_, _, _)
Span(s, pos, class) ==
    IF pos <= Len(s) /\ s[pos] \in class THEN Span(s, pos + 1, class) ELSE pos

NoParam == [start |-> -1, end |-> -1, name |-> <<>>, conv |-> <<>>]

\* the match of \{(name)(?::([^\}]+))?\} that starts at pos, name being a
\* non-empty run of nameClass
ParamAt(path, pos, nameClass) ==
    LET e == Span(path, pos + 1, nameClass)
        c == Span(path, e + 1, PathChars \ {"}"})
    IN  IF path[pos] # "{" \/ e = pos + 1 \/ e > Len(path)
        THEN NoParam
        ELSE IF path[e] = "}"
        THEN [start |-> pos - 1, end |-> e, name |-> SubSeq(path, pos + 1, e - 1),
              conv |-> <<>>]
        ELSE IF path[e] = ":" /\ c > e + 1 /\ c <= Len(path)
        THEN [start |-> pos - 1, end |-> c, name |-> SubSeq(path, pos + 1, e - 1),
              conv |-> SubSeq(path, e + 1, c - 1)]
        ELSE NoParam

\* re.finditer / the matches re.sub replaces: left to right, not overlapping
RECURSIVE finditer(_, _, _)
finditer(path, pos, nameClass) ==
    IF pos > Len(path)
    THEN <<>>
    ELSE LET m == ParamAt(path, pos, nameClass)
         IN  IF m = NoParam
             THEN finditer(path, pos + 1, nameClass)
             ELSE <<m>> \o finditer(path, m.end + 1, nameClass)

\* (?P<name>pattern)
Group(name, pattern) == <<"(", "?", "P", "<">> \o name \o <<">">> \o pattern \o <<")">>

\* Python slices s[:n] and s[n:], n >= 0
SliceTo(s, n) == SubSeq(s, 1, IF n < Len(s) THEN n ELSE Len(s))
SliceFrom(s, n) == SubSeq(s, (IF n < Len(s) THEN n ELSE Len(s)) + 1, Len(s))

\* the loop of APIRoute._compile_path over the matches from the i-th on:
\* the group is spliced into path_regex at the offsets the match has in path
RECURSIVE SpliceGroups(_, _, _)
SpliceGroups(path_regex, matches, i) ==
    IF i > Len(matches)
    THEN path_regex
    ELSE LET match == matches[i]
             param_pattern == IF match.conv = <<>> THEN DefaultParamPattern ELSE match.conv
         IN  SpliceGroups(SliceTo(path_regex, match.start)
                              \o Group(match.name, param_pattern)
                              \o SliceFrom(path_regex, match.end),
                          matches, i + 1)

\* the Python branch of APIRoute._compile_path(path)
CompilePathPython(path) ==
    LET matches == finditer(path, 1, WordChars)
    IN  [path_format |-> path,
         path_regex |-> SpliceGroups(<<"^">>, matches, 1) \o <<"$">>,
         param_names |-> [i \in 1..Len(matches) |-> matches[i].name]]

\* re.sub(r'{([^}:]+)(?::([^}]+))?}', r'(?P<\1>[^/]+)', pattern) from pos on
RECURSIVE re_sub(_, _, _, _)
re_sub(pattern, pos, matches, i) ==
    IF i > Len(matches)
    THEN SubSeq(pattern, pos, Len(pattern))
    ELSE SubSeq(pattern, pos, matches[i].start)
             \o Group(matches[i].name, DefaultParamPattern)
             \o re_sub(pattern, matches[i].end + 1, matches, i + 1)

\* the Python fallback of the bridge's compile_path_regex(path)
CompilePathFallback(path) ==
    <<"^">> \o re_sub(path, 1, finditer(path, 1, PathChars \ {"}", ":"}), 1) \o <<"$">>

\* ---- re.match for the patterns the two compilers write ----
HasPrefixAt(s, pos, p) ==
    pos + Len(p) - 1 <= Len(s) /\ SubSeq(s, pos, pos + Len(p) - 1) = p

Token(k, v) == [k |-> k, v |-> v]

\* the pattern from pos on as assertions, literals and named groups; text
\* that re.compile rejects gives an "error" token
RECURSIVE Tokens(_, _)
Tokens(pattern, pos) ==
    IF pos > Len(pattern)
    THEN <<>>
    ELSE IF pattern[pos] = "^"
    THEN <<Token("bol", <<>>)>> \o Tokens(pattern, pos + 1)
    ELSE IF pattern[pos] = "$"
    THEN <<Token("eol", <<>>)>> \o Tokens(pattern, pos + 1)
    ELSE IF pattern[pos] \in WordChars \cup {"/"}
    THEN <<Token("lit", <<pattern[pos]>>)>> \o Tokens(pattern, pos + 1)
    ELSE LET e == Span(pattern, pos + 4, WordChars)
             close == <<">">> \o DefaultParamPattern \o <<")">>
             close_digits == <<">">> \o DigitsPattern \o <<")">>
             named == HasPrefixAt(pattern, pos, <<"(", "?", "P", "<">>) /\ e > pos + 4
         IN  IF named /\ HasPrefixAt(pattern, e, close)
             THEN <<Token("group", SubSeq(pattern, pos + 4, e - 1))>>
                      \o Tokens(pattern, e + Len(close))
             ELSE IF named /\ HasPrefixAt(pattern, e, close_digits)
             THEN <<Token("digits", SubSeq(pattern, pos + 4, e - 1))>>
                      \o Tokens(pattern, e + Len(close_digits))
             ELSE <<Token("error", <<>>)>>

NoMatch == [ok |-> FALSE, groups |-> <<>>]

\* backtracking match of the tokens from the ti-th on against s from pi on;
\* a group takes the longest run of characters of its class ([^/] or \d)
\* that the rest allows
RECURSIVE MatchFrom(_, _, _, _), GroupTry(_, _, _, _, _)
MatchFrom(toks, ti, s, pi) ==
    IF ti > Len(toks)
    THEN [ok |-> TRUE, groups |-> <<>>]
    ELSE LET t == toks[ti]
         IN  IF t.k = "bol"
             THEN IF pi = 1 THEN MatchFrom(toks, ti + 1, s, pi) ELSE NoMatch
             ELSE IF t.k = "eol"
             THEN IF pi = Len(s) + 1 THEN MatchFrom(toks, ti + 1, s, pi) ELSE NoMatch
             ELSE IF t.k = "lit"
             THEN IF pi <= Len(s) /\ s[pi] = t.v[1]
                  THEN MatchFrom(toks, ti + 1, s, pi + 1)
                  ELSE NoMatch
             ELSE GroupTry(toks, ti, s, pi,
                           Span(s, pi, IF t.k = "digits" THEN Digits
                                       ELSE PathChars \ {"/"}) - pi)

GroupTry(toks, ti, s, pi, n) ==
    IF n < 1
    THEN NoMatch
    ELSE LET rest == MatchFrom(toks, ti + 1, s, pi + n)
         IN  IF rest.ok
             THEN [ok |-> TRUE,
                   groups |-> <<<<toks[ti].v, SubSeq(s, pi, pi + n - 1)>>>> \o rest.groups]
             ELSE GroupTry(toks, ti, s, pi, n - 1)

\* re.match(pattern, string): the groups in pattern order, None, or re.error
re_match(pattern, string) ==
    LET toks == Tokens(pattern, 1)
        m == MatchFrom(toks, 1, string, 1)
    IN  IF \E i \in 1..Len(toks) : toks[i].k = "error"
        THEN [outcome |-> "re.error", groups |-> <<>>]
        ELSE IF m.ok
        THEN [outcome |-> "match", groups |-> m.groups]
        ELSE [outcome |-> "None", groups |-> <<>>]

(***************************************************************************)
(* The bridge's own functions (fastapi/_rust.py): native when the loaded   *)
(* module has the function, else a warning and the Python fallback         *)
(***************************************************************************)
MaxWarnings == 2

\* _show_fallback_warning(func_name): whether warnings.warn is called
ShouldWarn_always(shown, func_name) == TRUE
ShouldWarn(shown, func_name) == func_name \notin shown

\* _show_fallback_warning for each of names in turn (names are distinct)
ShowFallbackWarnings(names) ==
    /\ \A n \in names \cap FallbackNames :
          ShouldWarn(FALLBACK_WARNINGS_SHOWN, n) => warnings_emitted[n] < MaxWarnings
    /\ warnings_emitted' =
          [n \in FallbackNames |->
              IF n \in names /\ ShouldWarn(FALLBACK_WARNINGS_SHOWN, n)
              THEN warnings_emitted[n] + 1
              ELSE warnings_emitted[n]]
    /\ FALLBACK_WARNINGS_SHOWN' = FALLBACK_WARNINGS_SHOWN \cup names

\* one call of a bridge function: names are the functions entered on the way
\* (each looks itself up in the module, the first that is found answers)
BridgeCall(func_name, names, args, fallback_value) ==
    LET f == _get_rust_function(func_name)
        native == {n \in names : _get_rust_function(n).found}
    IN  /\ BridgeAfter(f)
        /\ IF func_name \in native
           THEN /\ call_result' = Result(func_name, "returned", "native", args, <<"native">>)
                /\ UNCHANGED <<FALLBACK_WARNINGS_SHOWN, warnings_emitted>>
           ELSE IF native # {}
           THEN /\ call_result' = Result(func_name, "returned", "native", args, <<"native">>)
                /\ ShowFallbackWarnings({func_name})
           ELSE /\ call_result' = Result(func_name, "returned", "python", args, fallback_value)
                /\ ShowFallbackWarnings(names)
        /\ UNCHANGED ext
        /\ UNCHANGED <<retryVars, durVars, itemVars, userVars, tokVars, dbVars, webVars, routeVars, schemaVars, routerVars, asyncVars>>

compile_path_regex(path) ==
    BridgeCall("compile_path_regex", {"compile_path_regex"}, <<path>>,
               CompilePathFallback(path))

validate_path_params ==
    BridgeCall("validate_path_params", {"validate_path_params"}, <<>>,
               <<"validated_data">>)

\* falls back to validate_path_params, which looks itself up again
validate_query_params ==
    BridgeCall("validate_query_params", {"validate_query_params", "validate_path_params"},
               <<>>, <<"validated_data">>)

\* APIRoute._compile_path(path): `_rust.rust_available()` is looked up and
\* called outside the try block, the native compiler inside it
APIRoute_compile_path(path, says_available, native_raises) ==
    /\ LET a == ModuleGetattr("rust_available")
           native == /\ says_available
                     /\ ModuleGetattr("get_rust_function").error = "none"
                     /\ ~native_raises
       IN  /\ BridgeAfter(a)
           /\ call_result' =
                IF a.error # "none"
                THEN Result("APIRoute._compile_path", "AttributeError", "none", <<path>>, <<>>)
                ELSE IF native
                THEN Result("APIRoute._compile_path", "returned", "native", <<path>>,
                            <<"native">>)
                ELSE Result("APIRoute._compile_path", "returned", "python", <<path>>,
                            CompilePathPython(path))
    /\ UNCHANGED <<ext, FALLBACK_WARNINGS_SHOWN, warnings_emitted>>
    /\ UNCHANGED <<retryVars, durVars, itemVars, userVars, tokVars, dbVars, webVars, routeVars, schemaVars, routerVars, asyncVars>>

\* cleanup_rust_resources(): the module's cleanup hook, when there is one,
\* inside a try block; then the two loader globals are reset
cleanup_rust_resources(hook_raises) ==
    /\ LET hook == RUST_MODULE # NoModule /\ "cleanup" \in ext.exports
       IN  call_result' =
               Result("cleanup_rust_resources", "returned", "none", <<>>,
                      <<IF ~hook THEN "no hook"
                        ELSE IF hook_raises THEN "hook raised" ELSE "hook returned">>)
    /\ RUST_MODULE' = NoModule
    /\ RUST_LOADED' = FALSE
    /\ load_computed' = FALSE
    /\ load_steps' = {}
    /\ UNCHANGED <<ext, FALLBACK_WARNINGS_SHOWN, warnings_emitted>>
    /\ UNCHANGED <<retryVars, durVars, itemVars, userVars, tokVars, dbVars, webVars, routeVars, schemaVars, routerVars, asyncVars>>

FallbackNext ==
    \/ \E p \in PathTemplates : compile_path_regex(p)
    \/ validate_path_params
    \/ validate_query_params
    \/ \E p \in PathTemplates, av \in BOOLEAN, nr \in BOOLEAN :
          APIRoute_compile_path(p, av, nr)
    \/ \E hr \in BOOLEAN : cleanup_rust_resources(hr)

(***************************************************************************)
(* Persistence (app/database.py): the lazily created connection and the    *)
(* scoped transaction.  Every task runs one                                *)
(* `async with get_db_transaction() as db:` block whose body writes        *)
(* through db.execute; tasks interleave at the awaits.  A row is the pair  *)
(* of the task and the number of its write.                                *)
(***************************************************************************)
NumTasks == 2
MaxWrites == 2

Tasks == 1..NumTasks
NoConn == 0
NoInstance == "None"
IdleTask == [pc |-> "idle", conn |-> NoConn, wrote |-> 0]

DbInit ==
    /\ db_instance = NoInstance
    /\ db_connection = NoConn
    /\ db_opened = 0
    /\ db_stores = <<>>
    /\ db_file = {}
    /\ db_pending = [c \in {} |-> {}]
    /\ task = [t \in Tasks |-> IdleTask]

\* get_db_connection(): the wrapper is created on the first call; there is
\* no suspension point between the check and the assignment
get_db_connection == IF db_instance = NoInstance THEN "DatabaseConnection" ELSE db_instance

\* `self._connection = <the connection just opened>`
\* faulty variant: a connection stored meanwhile is kept
StoreConnection_keep_first(current, opened) == IF current = NoConn THEN opened ELSE current
StoreConnection(current, opened) == opened

\* conn.commit() on connection c: what c has pending reaches the file
Commit(c) ==
    /\ db_file' = db_file \cup db_pending[c]
    /\ db_pending' = [db_pending EXCEPT ![c] = {}]

\* conn.rollback() on connection c: what c has pending is dropped
Rollback(c) ==
    /\ db_pending' = [db_pending EXCEPT ![c] = {}]
    /\ UNCHANGED db_file

\* get_db_transaction() up to the first suspension point: the wrapper is
\* fetched and DatabaseConnection.connect tests `self._connection is None`;
\* a task that finds a connection enters its block with it, the others are
\* suspended in `await aiosqlite.connect(...)`
ConnectCheck(t) ==
    /\ task[t].pc = "idle"
    /\ db_instance' = get_db_connection
    /\ IF db_connection = NoConn
       THEN task' = [task EXCEPT ![t].pc = "connecting"]
       ELSE task' = [task EXCEPT ![t].pc = "in_block", ![t].conn = db_connection]
    /\ UNCHANGED <<db_connection, db_opened, db_stores, db_file, db_pending>>
    /\ UNCHANGED <<retryVars, durVars, itemVars, userVars, tokVars, bridgeVars, webVars, routeVars, schemaVars, routerVars, asyncVars>>

\* aiosqlite.connect returns: the new connection is assigned to _connection
\* and connect returns self._connection
ConnectFinish(t) ==
    /\ task[t].pc = "connecting"
    /\ LET opened == db_opened + 1
           stored == StoreConnection(db_connection, opened)
       IN  /\ db_opened' = opened
           /\ db_connection' = stored
           /\ db_stores' = Append(db_stores, opened)
           /\ db_pending' = db_pending @@ (opened :> {})
           /\ task' = [task EXCEPT ![t].pc = "in_block", ![t].conn = stored]
    /\ UNCHANGED <<db_instance, db_file>>
    /\ UNCHANGED <<retryVars, durVars, itemVars, userVars, tokVars, bridgeVars, webVars, routeVars, schemaVars, routerVars, asyncVars>>

\* `await db.execute(...)` inside the block: DatabaseConnection.execute takes
\* the wrapper's connection, executes the statement on it and commits
DbExecute(t) ==
    /\ task[t].pc = "in_block"
    /\ task[t].wrote < MaxWrites
    /\ LET conn == db_connection
           row == <<t, task[t].wrote + 1>>
       IN  /\ db_file' = db_file \cup db_pending[conn] \cup {row}
           /\ db_pending' = [db_pending EXCEPT ![conn] = {}]
    /\ task' = [task EXCEPT ![t].wrote = @ + 1]
    /\ UNCHANGED <<db_instance, db_connection, db_opened, db_stores>>
    /\ UNCHANGED <<retryVars, durVars, itemVars, userVars, tokVars, bridgeVars, webVars, routeVars, schemaVars, routerVars, asyncVars>>

\* the block ends: normally (conn.commit()) or by an exception
\* (conn.rollback(), and the exception is raised again)
BlockEnds(t, raises) ==
    /\ task[t].pc = "in_block"
    /\ IF raises
       THEN Rollback(task[t].conn) /\ task' = [task EXCEPT ![t].pc = "failed"]
       ELSE Commit(task[t].conn) /\ task' = [task EXCEPT ![t].pc = "committed"]
    /\ UNCHANGED <<db_instance, db_connection, db_opened, db_stores>>
    /\ UNCHANGED <<retryVars, durVars, itemVars, userVars, tokVars, bridgeVars, webVars, routeVars, schemaVars, routerVars, asyncVars>>

DbNext ==
    \/ \E t \in Tasks : ConnectCheck(t)
    \/ \E t \in Tasks : ConnectFinish(t)
    \/ \E t \in Tasks : DbExecute(t)
    \/ \E t \in Tasks, raises \in BOOLEAN : BlockEnds(t, raises)

(***************************************************************************)
(* The demonstration API (app/main.py): register, login, GET /users/me,    *)
(* POST /files/upload, GET /files/{file_id}, requests served one after the *)
(* other.  SQL parameters are tagged values (StrV, IntV, or an object).    *)
(***************************************************************************)
MaxFiles == 1

\* uploaded contents (bytes) and file names
Contents == {<<1>>, <<1, 2>>}
Filenames == {"f1"}

\* RustFileOps.calculate_file_hash: the native hash, a function of the content
calculate_file_hash(content) == <<"blake3", content>>

\* RustCrypto.verify_password: the facade's check of a password against a hash
verify_password(password, password_hash) == password_hash = hash_password(password)

\* str(user["id"])
str(n) == ToString(n)

\* TokenData(username=username, scopes=scopes), the object verify_token returns
TokenData(username, scopes) ==
    [t |-> "TokenData", v |-> [username |-> username, scopes |-> scopes]]

\* the Python types sqlite3 can bind to a `?`
SqlBindable(param) == param.t \in {"int", "str", "NoneType"}

\* the value a bound parameter has where an INTEGER column is compared or
\* assigned: an integer, a text that is the decimal form of one, else no id
SqlInteger(param) ==
    IF param.t = "int"
    THEN param.v
    ELSE IF param.t = "str" /\ \E n \in 1..(Cardinality(Emails) + MaxFiles) : str(n) = param.v
    THEN CHOOSE n \in 1..(Cardinality(Emails) + MaxFiles) : str(n) = param.v
    ELSE 0

NoToken == Garbage
NoWebResp == [op |-> "none", status |-> "none", token |-> NoToken, req |-> <<>>, body |-> <<>>]

WebResp(op, status, token, req, body) ==
    [op |-> op, status |-> status, token |-> token, req |-> req, body |-> body]

WebInit ==
    /\ issued_tokens = {}
    /\ files_table = <<>>
    /\ web_resp = NoWebResp

\* UserResponse(id, email, full_name) of the row with that id
UserResponse(id) ==
    [id |-> id, email |-> users_table[id].email, full_name |-> users_table[id].full_name]

\* FileResponse of the row with that id
FileResponse(id) ==
    [id |-> id, filename |-> files_table[id].filename,
     file_hash |-> files_table[id].file_hash, file_size |-> files_table[id].file_size,
     upload_status |-> "completed"]

\* POST /register, the request served without another one in between
register_user(email, password, full_name) ==
    /\ LET existing_user == SelectIdByEmail(email)
           req == <<email, password, full_name>>
       IN  IF EmailTaken(existing_user)
           THEN /\ web_resp' = WebResp("register_user", "HTTP_400", NoToken, req, <<>>)
                /\ UNCHANGED users_table
           ELSE /\ users_table' = Append(users_table,
                                         [email |-> email,
                                          password_hash |-> hash_password(password),
                                          full_name |-> full_name])
                /\ web_resp' = WebResp("register_user", "HTTP_200", NoToken, req,
                                       [id |-> Len(users_table) + 1, email |-> email,
                                        full_name |-> full_name])
    /\ UNCHANGED <<reg, orm_users, orm_resp, first_reg>>
    /\ UNCHANGED <<issued_tokens, files_table>>
    /\ UNCHANGED <<retryVars, durVars, itemVars, tokVars, bridgeVars, dbVars, routeVars, schemaVars, routerVars, asyncVars>>

\* POST /login
login(email, password) ==
    /\ LET user == SelectIdByEmail(email)
           req == <<email, password>>
           access_token == create_access_token([sub |-> str(user)], NoDelta, now)
       IN  IF user = NoRowId
           THEN /\ web_resp' = WebResp("login", "HTTP_401", NoToken, req, <<>>)
                /\ UNCHANGED issued_tokens
           ELSE IF ~verify_password(password, users_table[user].password_hash)
           THEN /\ web_resp' = WebResp("login", "HTTP_401", NoToken, req, <<>>)
                /\ UNCHANGED issued_tokens
           ELSE /\ web_resp' = WebResp("login", "HTTP_200", NoToken, req,
                                       [access_token |-> access_token,
                                        token_type |-> "bearer",
                                        user |-> UserResponse(user)])
                /\ issued_tokens' = issued_tokens \cup {access_token}
    /\ UNCHANGED files_table
    /\ UNCHANGED <<retryVars, durVars, itemVars, userVars, tokVars, bridgeVars, dbVars, routeVars, schemaVars, routerVars, asyncVars>>

\* `user_id = verify_token(credentials.credentials)`: what the handlers of
\* main.py bind to the `?` of their statements
VerifiedUserId(token) ==
    LET v == verify_token(token, now)
    IN  [outcome |-> v.outcome,
         user_id |-> TokenData(v.value, Get(token.claims, "scopes"))]

\* GET /users/me
get_current_user(token) ==
    /\ LET v == VerifiedUserId(token)
       IN  web_resp' =
             IF v.outcome # "returned"
             THEN WebResp("get_current_user", "HTTP_401", token, <<>>, <<>>)
             ELSE IF ~SqlBindable(v.user_id)
             THEN WebResp("get_current_user", "InterfaceError", token, <<>>, <<>>)
             ELSE IF SqlInteger(v.user_id) \notin DOMAIN users_table
             THEN WebResp("get_current_user", "HTTP_404", token, <<>>, <<>>)
             ELSE WebResp("get_current_user", "HTTP_200", token, <<>>,
                          UserResponse(SqlInteger(v.user_id)))
    /\ UNCHANGED <<issued_tokens, files_table>>
    /\ UNCHANGED <<retryVars, durVars, itemVars, userVars, tokVars, bridgeVars, dbVars, routeVars, schemaVars, routerVars, asyncVars>>

\* db.execute("INSERT INTO files (user_id, filename, file_hash, file_size)
\* ..."): the row, its user_id under the column's INTEGER affinity
FileRow(user_id, filename, file_hash, file_size) ==
    [user_id |-> SqlInteger(user_id), filename |-> filename, file_hash |-> file_hash,
     file_size |-> file_size]

\* POST /files/upload
upload_file(token, filename, content, expected_hash) ==
    /\ Len(files_table) < MaxFiles
    /\ LET v == VerifiedUserId(token)
           file_hash == calculate_file_hash(content)
           req == <<filename, content, expected_hash>>
       IN  IF v.outcome # "returned"
           THEN /\ web_resp' = WebResp("upload_file", "HTTP_401", token, req, <<>>)
                /\ UNCHANGED files_table
           ELSE IF expected_hash # <<>> /\ file_hash # expected_hash
           THEN /\ web_resp' = WebResp("upload_file", "HTTP_400", token, req, <<>>)
                /\ UNCHANGED files_table
           ELSE IF ~SqlBindable(v.user_id)
           THEN /\ web_resp' = WebResp("upload_file", "InterfaceError", token, req, <<>>)
                /\ UNCHANGED files_table
           ELSE /\ files_table' = Append(files_table,
                                         FileRow(v.user_id, filename, file_hash, Len(content)))
                /\ web_resp' = WebResp("upload_file", "HTTP_200", token, req,
                                       [id |-> Len(files_table) + 1, filename |-> filename,
                                        file_hash |-> file_hash, file_size |-> Len(content),
                                        upload_status |-> "completed"])
    /\ UNCHANGED issued_tokens
    /\ UNCHANGED <<retryVars, durVars, itemVars, userVars, tokVars, bridgeVars, dbVars, routeVars, schemaVars, routerVars, asyncVars>>

\* database.create_file_record(user_id, filename, file_hash, file_size)
create_file_record(user_id, filename, file_hash, file_size) ==
    /\ Len(files_table) < MaxFiles
    /\ files_table' = Append(files_table,
                             FileRow(IntV(user_id), filename, file_hash, file_size))
    /\ web_resp' = WebResp("create_file_record", "returned", NoToken,
                           <<user_id, filename>>, Len(files_table) + 1)
    /\ UNCHANGED issued_tokens
    /\ UNCHANGED <<retryVars, durVars, itemVars, userVars, tokVars, bridgeVars, dbVars, routeVars, schemaVars, routerVars, asyncVars>>

\* GET /files/{file_id}
get_file_info(file_id, token) ==
    /\ LET v == VerifiedUserId(token)
           found == /\ file_id \in DOMAIN files_table
                    /\ files_table[file_id].user_id = SqlInteger(v.user_id)
       IN  web_resp' =
             IF v.outcome # "returned"
             THEN WebResp("get_file_info", "HTTP_401", token, <<file_id>>, <<>>)
             ELSE IF ~SqlBindable(v.user_id)
             THEN WebResp("get_file_info", "InterfaceError", token, <<file_id>>, <<>>)
             ELSE IF ~found
             THEN WebResp("get_file_info", "HTTP_404", token, <<file_id>>, <<>>)
             ELSE WebResp("get_file_info", "HTTP_200", token, <<file_id>>, FileResponse(file_id))
    /\ UNCHANGED <<issued_tokens, files_table>>
    /\ UNCHANGED <<retryVars, durVars, itemVars, userVars, tokVars, bridgeVars, dbVars, routeVars, schemaVars, routerVars, asyncVars>>

\* the bearer tokens a request can carry: one that login returned, or junk
BearerTokens == issued_tokens \cup {Garbage}

WebNext ==
    \/ \E e \in Emails, p \in Profiles : register_user(e, p.password, p.full_name)
    \/ \E e \in Emails, p \in Profiles : login(e, p.password)
    \/ \E t \in BearerTokens : get_current_user(t)
    \/ \E t \in BearerTokens, f \in Filenames, c \in Contents,
          h \in {<<>>} \cup {calculate_file_hash(x) : x \in Contents} :
          upload_file(t, f, c, h)
    \/ \E u \in DOMAIN users_table, f \in Filenames, c \in Contents :
          create_file_record(u, f, calculate_file_hash(c), Len(c))
    \/ \E i \in 1..MaxFiles, t \in BearerTokens : get_file_info(i, t)

(***************************************************************************)
(* Route handlers: fastapi/routing.py APIRoute._handle_request and          *)
(* fastapi/routing/websocket.py APIWebSocketRoute.__call__                  *)
(*                                                                         *)
(* An exception is a record [cls, status_code, detail, errors].  The        *)
(* endpoint's failures are drawn from the exceptions deriving from          *)
(* Exception; the handlers' `except Exception` clauses do not see           *)
(* KeyboardInterrupt, SystemExit or a task cancellation.                    *)
(***************************************************************************)
NoException == [cls |-> "none", status_code |-> 0, detail |-> "", errors |-> <<>>]

HTTPException(status_code, detail) ==
    [cls |-> "HTTPException", status_code |-> status_code, detail |-> detail,
     errors |-> <<>>]

RequestValidationError(errors) ==
    [cls |-> "RequestValidationError", status_code |-> 0, detail |-> "",
     errors |-> errors]

WebSocketRequestValidationError(errors) ==
    [cls |-> "WebSocketRequestValidationError", status_code |-> 0, detail |-> "",
     errors |-> errors]

PlainException(cls, text) ==
    [cls |-> cls, status_code |-> 0, detail |-> text, errors |-> <<>>]

\* the classes deriving from HTTPException: the validation errors are a
\* category of their own, next to the HTTP errors
HTTPExceptionClasses == {"HTTPException"}

\* str(e): the detail text, or the rendering of the error list
str_exception(e) ==
    IF e.errors # <<>> THEN ToString(e.errors) ELSE e.detail

\* the error lists solve_dependencies can hand back
DependencyErrors == {<<>>, <<"query.q: field required">>,
                     <<"path.item_id: not an integer", "query.q: field required">>}

Returns(is_response) ==
    [kind |-> "returns", is_response |-> is_response, exc |-> NoException]
Raises(exc) ==
    [kind |-> "raises", is_response |-> FALSE, exc |-> exc]

\* what an endpoint can do once it is invoked
EndpointBehaviours ==
    {Returns(TRUE), Returns(FALSE),
     Raises(HTTPException(404, "Item not found")),
     Raises(HTTPException(403, "Not enough permissions")),
     Raises(HTTPException(500, "upstream failed")),
     Raises(PlainException("ValueError", "invalid literal")),
     Raises(PlainException("KeyError", "'owner'"))}

WsEndpointBehaviours ==
    {Returns(FALSE),
     Raises(PlainException("ValueError", "invalid literal")),
     Raises(PlainException("WebSocketDisconnect", "1001")),
     Raises(HTTPException(403, "Not enough permissions"))}

\* the values of APIRoute.status_code: None (0) or a configured status
RouteStatusCodes == {0, 201}

NoHttpResult ==
    [errors |-> <<>>, behaviour |-> Returns(FALSE), endpoint_called |-> FALSE,
     outcome |-> "none", status_code |-> 0, content |-> "none",
     exc |-> NoException]

HttpReturned(errors, behaviour, status_code, content) ==
    [errors |-> errors, behaviour |-> behaviour, endpoint_called |-> TRUE,
     outcome |-> "returned", status_code |-> status_code, content |-> content,
     exc |-> NoException]

HttpRaised(errors, behaviour, endpoint_called, exc) ==
    [errors |-> errors, behaviour |-> behaviour, endpoint_called |-> endpoint_called,
     outcome |-> "raised", status_code |-> 0, content |-> "none", exc |-> exc]

\* `except HTTPException: raise`
IsHTTPException_never(e) == FALSE
IsHTTPException(e) == e.cls \in HTTPExceptionClasses

\* the two except clauses of _handle_request, applied to what the try block
\* raised
HandleRequestExcept(e) ==
    IF IsHTTPException(e) THEN e ELSE HTTPException(500, str_exception(e))

\* `self.status_code or 200`
StatusOrDefault(status_code) == IF status_code = 0 THEN 200 ELSE status_code

IdleWs ==
    [pc |-> "idle", errors |-> <<>>, endpoint_called |-> FALSE,
     closes |-> <<>>, exc |-> NoException, raised |-> NoException]

RouteInit ==
    /\ http_result = NoHttpResult
    /\ ws = IdleWs

\* APIRoute._handle_request(request)
APIRoute_handle_request(errors, behaviour, status_code, says_available, native_raises) ==
    LET a == ModuleGetattr("rust_available")
        encodes == errors = <<>> /\ behaviour.kind = "returns" /\ ~behaviour.is_response
    IN  /\ IF encodes
           THEN BridgeAfter(a)
           ELSE UNCHANGED <<RUST_MODULE, RUST_LOADED, load_computed, load_steps>>
        /\ http_result' =
             IF errors # <<>>
             THEN HttpRaised(errors, behaviour, FALSE,
                             HandleRequestExcept(RequestValidationError(errors)))
             ELSE IF behaviour.kind = "raises"
             THEN HttpRaised(errors, behaviour, TRUE, HandleRequestExcept(behaviour.exc))
             ELSE IF behaviour.is_response
             THEN HttpReturned(errors, behaviour, 200, "raw_response")
             ELSE IF a.error # "none"
             THEN HttpRaised(errors, behaviour, TRUE,
                    HandleRequestExcept(PlainException("AttributeError",
                        "module 'fastapi._rust' has no attribute 'rust_available'")))
             ELSE IF /\ says_available
                     /\ ModuleGetattr("RustSerialization").error = "none"
                     /\ ~native_raises
             THEN HttpReturned(errors, behaviour, StatusOrDefault(status_code), "native")
             ELSE HttpReturned(errors, behaviour, StatusOrDefault(status_code), "python")
        /\ UNCHANGED <<ext, FALLBACK_WARNINGS_SHOWN, warnings_emitted, call_result, ws>>
        /\ UNCHANGED <<retryVars, durVars, itemVars, userVars, tokVars, dbVars, webVars, schemaVars, routerVars, asyncVars>>

\* `await websocket.close(code=...)`, as the route calls it
CloseSocket_skip(closes, code) == closes
CloseSocket(closes, code) == Append(closes, code)

WS_INTERNAL_ERROR == 1011

\* APIWebSocketRoute.__call__: `await solve_dependencies(...)` and the test
\* of `errors`
WsSolveDependencies(errors) ==
    /\ ws.pc = "idle"
    /\ ws' = IF errors # <<>>
             THEN [ws EXCEPT !.pc = "except", !.errors = errors,
                             !.exc = WebSocketRequestValidationError(errors)]
             ELSE [ws EXCEPT !.pc = "endpoint"]
    /\ UNCHANGED <<http_result, bridgeVars>>
    /\ UNCHANGED <<retryVars, durVars, itemVars, userVars, tokVars, dbVars, webVars, schemaVars, routerVars, asyncVars>>

\* `await self.endpoint(**values)`
WsEndpoint(behaviour) ==
    /\ ws.pc = "endpoint"
    /\ ws' = IF behaviour.kind = "raises"
             THEN [ws EXCEPT !.pc = "except", !.endpoint_called = TRUE,
                             !.exc = behaviour.exc]
             ELSE [ws EXCEPT !.pc = "done", !.endpoint_called = TRUE]
    /\ UNCHANGED <<http_result, bridgeVars>>
    /\ UNCHANGED <<retryVars, durVars, itemVars, userVars, tokVars, dbVars, webVars, schemaVars, routerVars, asyncVars>>

\* `except Exception as e: await websocket.close(code=1011)`
WsClose ==
    /\ ws.pc = "except"
    /\ ws' = [ws EXCEPT !.pc = "reraise",
                        !.closes = CloseSocket(ws.closes, WS_INTERNAL_ERROR)]
    /\ UNCHANGED <<http_result, bridgeVars>>
    /\ UNCHANGED <<retryVars, durVars, itemVars, userVars, tokVars, dbVars, webVars, schemaVars, routerVars, asyncVars>>

\* the bare `raise` of the except clause
WsReraise ==
    /\ ws.pc = "reraise"
    /\ ws' = [ws EXCEPT !.pc = "raised", !.raised = ws.exc]
    /\ UNCHANGED <<http_result, bridgeVars>>
    /\ UNCHANGED <<retryVars, durVars, itemVars, userVars, tokVars, dbVars, webVars, schemaVars, routerVars, asyncVars>>

\* the next connection is routed to the same route object
WsAccept ==
    /\ ws.pc \in {"done", "raised"}
    /\ ws' = IdleWs
    /\ UNCHANGED <<http_result, bridgeVars>>
    /\ UNCHANGED <<retryVars, durVars, itemVars, userVars, tokVars, dbVars, webVars, schemaVars, routerVars, asyncVars>>

RouteNext ==
    \/ \E errors \in DependencyErrors, behaviour \in EndpointBehaviours,
          status_code \in RouteStatusCodes, av \in BOOLEAN, nr \in BOOLEAN :
            /\ (nr => av)
            /\ APIRoute_handle_request(errors, behaviour, status_code, av, nr)
    \/ \E errors \in DependencyErrors : WsSolveDependencies(errors)
    \/ \E behaviour \in WsEndpointBehaviours : WsEndpoint(behaviour)
    \/ WsClose
    \/ WsReraise
    \/ WsAccept

(***************************************************************************)
(* Parameter schema loader: fastapi/params/schema.py load_params_schema     *)
(* (fastapi/params/params.py holds a copy of the same function with its     *)
(* own pair of globals)                                                     *)
(***************************************************************************)
MaxFsClock == 2

\* the schema files of the installation: the default one and a second one
\* named by the caller or by FASTAPI_PARAMS_SCHEMA
SchemaPaths == {"params_schema.yaml", "other_schema.yaml"}

\* what a schema file can hold; "malformed" does not parse
SchemaContents == {"schema_1", "schema_2", "malformed"}

\* {"endpoints": {}, "definitions": {}}
EmptySchema == "empty_schema"

NoMtime == 0
\* a path without a file; mtime keeps the time of the last write to the path
NoFile == [exists |-> FALSE, mtime |-> NoMtime, content |-> "none"]

NoLoad ==
    [path |-> "none", force_reload |-> FALSE, file |-> NoFile,
     read |-> FALSE, value |-> "none"]

SchemaInit ==
    /\ fs = [p \in SchemaPaths |-> NoFile]
    /\ fs_clock = 1
    /\ schema_cache = None
    /\ schema_file_mtime = NoMtime
    /\ load_result = NoLoad

\* time passes on the file system clock
FsTick ==
    /\ fs_clock < MaxFsClock
    /\ fs_clock' = fs_clock + 1
    /\ UNCHANGED <<fs, schema_cache, schema_file_mtime, load_result>>
    /\ UNCHANGED <<retryVars, durVars, itemVars, userVars, tokVars, bridgeVars, dbVars, webVars, routeVars, routerVars, asyncVars>>

\* a schema file is created or edited, at a later time than the last write
\* to its path: its modification time becomes the current time
WriteFile(p, content) ==
    /\ fs[p].mtime < fs_clock
    /\ fs' = [fs EXCEPT ![p] = [exists |-> TRUE, mtime |-> fs_clock, content |-> content]]
    /\ UNCHANGED <<fs_clock, schema_cache, schema_file_mtime, load_result>>
    /\ UNCHANGED <<retryVars, durVars, itemVars, userVars, tokVars, bridgeVars, dbVars, webVars, routeVars, routerVars, asyncVars>>

DeleteFile(p) ==
    /\ fs[p].exists
    /\ fs' = [fs EXCEPT ![p] = [exists |-> FALSE, mtime |-> fs[p].mtime, content |-> "none"]]
    /\ UNCHANGED <<fs_clock, schema_cache, schema_file_mtime, load_result>>
    /\ UNCHANGED <<retryVars, durVars, itemVars, userVars, tokVars, bridgeVars, dbVars, webVars, routeVars, routerVars, asyncVars>>

\* the test that lets load_params_schema answer from the cache
CacheIsCurrent_any_mtime(force_reload, current_mtime) ==
    ~force_reload /\ schema_cache # None
CacheIsCurrent(force_reload, current_mtime) ==
    /\ ~force_reload
    /\ schema_cache # None
    /\ schema_file_mtime = current_mtime

\* load_params_schema(path, force_reload)
load_params_schema(path, force_reload) ==
    LET file == fs[path]
        result(read, value) ==
            [path |-> path, force_reload |-> force_reload, file |-> file,
             read |-> read, value |-> value]
    IN  /\ IF ~file.exists
           THEN /\ load_result' = result(FALSE, EmptySchema)
                /\ UNCHANGED <<schema_cache, schema_file_mtime>>
           ELSE IF CacheIsCurrent(force_reload, file.mtime)
           THEN /\ load_result' = result(FALSE, schema_cache)
                /\ UNCHANGED <<schema_cache, schema_file_mtime>>
           ELSE IF file.content = "malformed"
           THEN /\ load_result' = result(TRUE, EmptySchema)
                /\ UNCHANGED <<schema_cache, schema_file_mtime>>
           ELSE /\ schema_cache' = file.content
                /\ schema_file_mtime' = file.mtime
                /\ load_result' = result(TRUE, file.content)
        /\ UNCHANGED <<fs, fs_clock>>
        /\ UNCHANGED <<retryVars, durVars, itemVars, userVars, tokVars, bridgeVars, dbVars, webVars, routeVars, routerVars, asyncVars>>

SchemaNext ==
    \/ FsTick
    \/ \E p \in SchemaPaths, c \in SchemaContents : WriteFile(p, c)
    \/ \E p \in SchemaPaths : DeleteFile(p)
    \/ \E p \in SchemaPaths, f \in BOOLEAN : load_params_schema(p, f)

(***************************************************************************)
(* Router inclusion: fastapi/routing/http_methods.py APIRouter              *)
(* (fastapi/routing.py holds the same include_router)                       *)
(*                                                                         *)
(* A path is the sequence of its segments: <<"v1", "items">> is /v1/items.  *)
(* Route objects live in a heap; a router's route list holds references.    *)
(* path_regex is represented by the path it was compiled from.              *)
(***************************************************************************)
MaxRouteObjs == 2
MaxIncludes == 2

ParentRouters == {"parent_a", "parent_b"}
ChildRouter == "child"
Routers == ParentRouters \cup {ChildRouter}
RoutePaths == {<<"items">>, <<"users">>}
Prefixes == {<<>>, <<"v1">>, <<"v2">>}

RouteIds == 1..MaxRouteObjs

NoRoute ==
    [used |-> FALSE, path |-> <<>>, path_format |-> <<>>, path_regex |-> <<>>,
     registered |-> <<>>]

RouterInit ==
    /\ route_objs = [i \in RouteIds |-> NoRoute]
    /\ routers = [r \in Routers |->
                    [routes |-> <<>>, on_startup |-> <<r>>, on_shutdown |-> <<r>>]]
    /\ included = [r \in Routers |->
                    [paths |-> <<>>, on_startup |-> <<r>>, on_shutdown |-> <<r>>]]
    /\ includes = 0

\* add_api_websocket_route(path, endpoint): a route object is constructed
\* for self.prefix + path (the routers here have the default prefix "") and
\* appended; the constructor compiles path_regex from its path
add_api_websocket_route(router, path) ==
    /\ \E i \in RouteIds :
        /\ ~route_objs[i].used
        /\ \A j \in RouteIds : j < i => route_objs[j].used
        /\ route_objs' = [route_objs EXCEPT ![i] =
                            [used |-> TRUE, path |-> path, path_format |-> path,
                             path_regex |-> path, registered |-> path]]
        /\ routers' = [routers EXCEPT ![router].routes = Append(@, i)]
    /\ included' = [included EXCEPT ![router].paths = Append(@, path)]
    /\ UNCHANGED includes
    /\ UNCHANGED <<retryVars, durVars, itemVars, userVars, tokVars, bridgeVars, dbVars, webVars, routeVars, schemaVars, asyncVars>>

\* the ids held by a route list
IdsOf(routes) == {routes[k] : k \in 1..Len(routes)}

\* the body of the loop of include_router, applied to one route object
Prefixed(route, prefix) ==
    [route EXCEPT !.path = prefix \o @, !.path_format = prefix \o @]

\* include_router(router, prefix=prefix) on `parent`; `included` records
\* what the inclusion is to add: prefix + the path each route was registered
\* with on the child, and the child's hooks
include_router(parent, router, prefix) ==
    /\ includes < MaxIncludes
    /\ includes' = includes + 1
    /\ LET child == routers[router]
       IN  /\ route_objs' = [i \in RouteIds |->
                                IF i \in IdsOf(child.routes)
                                THEN Prefixed(route_objs[i], prefix)
                                ELSE route_objs[i]]
           /\ routers' = [routers EXCEPT
                            ![parent].routes = @ \o child.routes,
                            ![parent].on_startup = @ \o child.on_startup,
                            ![parent].on_shutdown = @ \o child.on_shutdown]
           /\ included' = [included EXCEPT
                            ![parent].paths = @ \o
                                [k \in 1..Len(child.routes) |->
                                    prefix \o route_objs[child.routes[k]].registered],
                            ![parent].on_startup = @ \o child.on_startup,
                            ![parent].on_shutdown = @ \o child.on_shutdown]
    /\ UNCHANGED <<retryVars, durVars, itemVars, userVars, tokVars, bridgeVars, dbVars, webVars, routeVars, schemaVars, asyncVars>>

RouterNext ==
    \/ \E r \in Routers, path \in RoutePaths : add_api_websocket_route(r, path)
    \/ \E p \in ParentRouters, prefix \in Prefixes : include_router(p, ChildRouter, prefix)

(***************************************************************************)
(* Decorator dispatch: app/utils.py timing_decorator and retry_decorator    *)
(* applied to a function that is either `def` or `async def` and that       *)
(* raises every time its body runs                                          *)
(***************************************************************************)
\* names a function body can refer to (func.__code__.co_names holds the
\* global and attribute names of the body; `await` is a keyword and not a
\* name)
CoNameSets == {{}, {"fetch"}, {"asyncio", "sleep"}}

NoFunc ==
    [decorator |-> "none", is_async |-> FALSE, co_names |-> {},
     max_retries |-> 0, delay |-> 1]

DecoratorInit ==
    /\ a_pc = "idle"
    /\ a_func = NoFunc
    /\ a_wrapper = "none"
    /\ a_attempt = 0
    /\ a_runs = 0
    /\ a_sleeps = <<>>
    /\ a_log = <<>>
    /\ a_result = "none"

\* `if hasattr(func, '__code__') and 'await' in func.__code__.co_names`
SelectWrapper(is_async, co_names) ==
    IF "await" \in co_names THEN "async_wrapper" ELSE "sync_wrapper"

\* the decorator is applied to func and the decorated function is called
DecoratedCall(decorator, is_async, co_names, mr, d) ==
    /\ a_pc \in {"idle", "raised"}
    /\ a_func' = [decorator |-> decorator, is_async |-> is_async, co_names |-> co_names,
                  max_retries |-> mr, delay |-> d]
    /\ a_wrapper' = SelectWrapper(is_async, co_names)
    /\ a_pc' = "attempt"
    /\ a_attempt' = 0
    /\ a_runs' = 0
    /\ a_sleeps' = <<>>
    /\ a_log' = <<>>
    /\ a_result' = "none"
    /\ UNCHANGED <<retryVars, durVars, itemVars, userVars, tokVars, bridgeVars, dbVars, webVars, routeVars, schemaVars, routerVars>>

\* `func(*args, **kwargs)` in sync_wrapper, `await func(*args, **kwargs)` in
\* async_wrapper.  Calling an async function only creates its coroutine:
\* the body runs, and raises, when the coroutine is awaited.
WrapperInvoke ==
    /\ a_pc = "attempt"
    /\ UNCHANGED <<a_func, a_wrapper, a_sleeps, a_attempt>>
    /\ IF a_wrapper = "sync_wrapper" /\ a_func.is_async
       THEN \* the coroutine is an ordinary return value
            /\ a_pc' = "coroutine_returned"
            /\ a_result' = "coroutine"
            /\ a_log' = IF a_func.decorator = "timing"
                        THEN Append(a_log, "executed") ELSE a_log
            /\ UNCHANGED a_runs
       ELSE \* the body runs and raises inside the try block
            /\ a_runs' = a_runs + 1
            /\ IF a_func.decorator = "timing"
               THEN /\ a_log' = Append(a_log, "failed")
                    /\ a_pc' = "raised"
                    /\ a_result' = "exception"
               ELSE IF a_attempt < a_func.max_retries
               THEN /\ a_log' = Append(a_log, "retrying")
                    /\ a_pc' = "sleeping"
                    /\ UNCHANGED a_result
               ELSE /\ a_log' = Append(a_log, "failed after all retries")
                    /\ a_pc' = "raised"
                    /\ a_result' = "exception"
    /\ UNCHANGED <<retryVars, durVars, itemVars, userVars, tokVars, bridgeVars, dbVars, webVars, routeVars, schemaVars, routerVars>>

\* time.sleep / await asyncio.sleep of delay * 2 ** attempt, then the next
\* iteration
WrapperSleep ==
    /\ a_pc = "sleeping"
    /\ a_sleeps' = Append(a_sleeps, Backoff(a_func.delay, a_attempt))
    /\ a_attempt' = a_attempt + 1
    /\ a_pc' = "attempt"
    /\ UNCHANGED <<a_func, a_wrapper, a_runs, a_log, a_result>>
    /\ UNCHANGED <<retryVars, durVars, itemVars, userVars, tokVars, bridgeVars, dbVars, webVars, routeVars, schemaVars, routerVars>>

\* the caller awaits the coroutine the wrapper returned: the body runs and
\* its exception reaches the caller, outside the wrapper
AwaitReturnedCoroutine ==
    /\ a_pc = "coroutine_returned"
    /\ a_runs' = a_runs + 1
    /\ a_pc' = "raised"
    /\ a_result' = "exception"
    /\ UNCHANGED <<a_func, a_wrapper, a_attempt, a_sleeps, a_log>>
    /\ UNCHANGED <<retryVars, durVars, itemVars, userVars, tokVars, bridgeVars, dbVars, webVars, routeVars, schemaVars, routerVars>>

DecoratorNext ==
    \/ \E decorator \in {"timing", "retry"}, is_async \in BOOLEAN, co_names \in CoNameSets,
          mr \in 0..MaxRetries, d \in 1..MaxDelay :
            /\ decorator = "timing" => (mr = 0 /\ d = 1)
            /\ DecoratedCall(decorator, is_async, co_names, mr, d)
    \/ WrapperInvoke
    \/ WrapperSleep
    \/ AwaitReturnedCoroutine

(***************************************************************************)
(* Route matching: fastapi/_rust.py match_route                             *)
(***************************************************************************)
MaxRouteList == 2

\* a route as match_route reads it: its method set and its compiled pattern
Route(template, methods) ==
    [methods |-> methods, path_regex |-> CompilePathFallback(template)]

RouteKinds ==
    {Route(T_items_id, {"GET"}), Route(T_items_id, {"POST"}),
     Route(T_two_params, {"GET", "POST"}), Route(T_items, {"GET"})}

RouteLists ==
    UNION {[1..n -> RouteKinds] : n \in 0..MaxRouteList}

RequestPaths == {T_items, R_items_42}
RequestMethods == {"GET", "POST"}

\* the value None of match_route, and the tuple (idx, match.groupdict())
NoRouteMatch == [found |-> FALSE, idx |-> -1, params |-> <<>>]
RouteMatch(idx, params) == [found |-> TRUE, idx |-> idx, params |-> params]

\* `method in route.methods and route.path_regex.match(path)`
RouteAccepts(route, path, method) ==
    method \in route.methods /\ re_match(route.path_regex, path).outcome = "match"

\* the loop `for idx, route in enumerate(routes)` from the i-th route on
\* faulty variant: the loop goes on after a match and the last match wins
RECURSIVE MatchLoop_last(_, _, _, _)
MatchLoop_last(path, method, routes, i) ==
    IF i > Len(routes)
    THEN NoRouteMatch
    ELSE LET later == MatchLoop_last(path, method, routes, i + 1)
         IN  IF later.found
             THEN later
             ELSE IF RouteAccepts(routes[i], path, method)
             THEN RouteMatch(i - 1, re_match(routes[i].path_regex, path).groups)
             ELSE NoRouteMatch
RECURSIVE MatchLoop(_, _, _, _)
MatchLoop(path, method, routes, i) ==
    IF i > Len(routes)
    THEN NoRouteMatch
    ELSE IF RouteAccepts(routes[i], path, method)
    THEN RouteMatch(i - 1, re_match(routes[i].path_regex, path).groups)
    ELSE MatchLoop(path, method, routes, i + 1)

\* match_route(path, method, routes)
match_route(path, method, routes) ==
    BridgeCall("match_route", {"match_route"}, <<path, method, routes>>,
               MatchLoop(path, method, routes, 1))

MatchNext ==
    \E path \in RequestPaths, method \in RequestMethods, routes \in RouteLists :
        match_route(path, method, routes)

(***************************************************************************)
(* Specifications                                                          *)
(***************************************************************************)
Init ==
    /\ RetryInit /\ DurInit /\ ItemInit /\ UserInit /\ TokInit /\ BridgeInit
    /\ DbInit /\ WebInit /\ RouteInit /\ SchemaInit /\ RouterInit /\ DecoratorInit

\* no duration has been handed to parse_duration
DurIdle == d_call = NoDurCall(<<>>)

\* the installation without the native extension
AbsentExt == [python_ok |-> TRUE, import |-> "ImportError", init |-> "missing", exports |-> {}]

\* each subsystem is explored with the others at rest
AppInit ==
    /\ RetryInit /\ DurIdle /\ ItemInit /\ UserInit /\ TokInit
    /\ BridgeInit /\ ext = AbsentExt
    /\ DbInit /\ WebInit /\ RouteInit /\ SchemaInit /\ RouterInit /\ DecoratorInit

DurAppInit ==
    /\ RetryInit /\ DurInit /\ ItemInit /\ UserInit /\ TokInit
    /\ BridgeInit /\ ext = AbsentExt
    /\ DbInit /\ WebInit /\ RouteInit /\ SchemaInit /\ RouterInit /\ DecoratorInit

BridgeAppInit ==
    /\ RetryInit /\ DurIdle /\ ItemInit /\ UserInit /\ TokInit
    /\ BridgeInit
    /\ DbInit /\ WebInit /\ RouteInit /\ SchemaInit /\ RouterInit /\ DecoratorInit

Next ==
    \/ RetryNext \/ DurNext \/ ItemNext \/ UserNext \/ TokNext \/ BridgeNext
    \/ FallbackNext \/ DbNext \/ WebNext \/ RouteNext \/ SchemaNext \/ RouterNext \/ DecoratorNext \/ MatchNext

Spec == Init /\ [][Next]_vars
SpecRetry == AppInit /\ [][RetryNext]_vars
SpecDuration == DurAppInit /\ [][DurNext]_vars
SpecItems == AppInit /\ [][ItemNext]_vars
SpecUsers == AppInit /\ [][UserNext]_vars
SpecTokens == AppInit /\ [][TokNext]_vars
SpecBridge == BridgeAppInit /\ [][BridgeNext]_vars
SpecFallback == BridgeAppInit /\ [][FallbackNext]_vars
SpecMatch == BridgeAppInit /\ [][MatchNext]_vars
SpecDb == AppInit /\ [][DbNext]_vars
SpecWeb == AppInit /\ [][WebNext]_vars
SpecRoute == BridgeAppInit /\ [][RouteNext]_vars
SpecSchema == AppInit /\ [][SchemaNext]_vars
SpecRouter == AppInit /\ [][RouterNext]_vars
SpecDecorators == AppInit /\ [][DecoratorNext]_vars

(***************************************************************************)
(* Properties                                                              *)
(***************************************************************************)

\* C1: a function that raises on every call is invoked exactly
\* max_retries + 1 times by the wrapper (4 times for max_retries = 3), never
\* more; the wrapper never returns normally, and what it raises in the end is
\* the exception of the last invocation.
C1_RetryExhausted ==
    r_cfg.first_ok = NeverSucceeds =>
        /\ r_pc # "returned"
        /\ r_calls <= r_cfg.max_retries + 1
        /\ r_pc = "raised" =>
              /\ r_calls = r_cfg.max_retries + 1
              /\ r_result = [kind |-> "exception", of_call |-> r_calls]

\* retry_decorator(max_retries=3, delay=1.0) around a function that always
\* raises has given up after its 4th invocation
C1_Witness ==
    /\ r_pc = "raised"
    /\ r_cfg = [max_retries |-> 3, delay |-> 1, first_ok |-> NeverSucceeds]
    /\ r_calls = 4
    /\ r_result = [kind |-> "exception", of_call |-> 4]

\* C2: the i-th sleep of a wrapper call (after failed attempt a = i - 1) lasts
\* delay * 2^a; there is one sleep between two consecutive invocations and
\* none after the last one, so a call that gives up has slept max_retries
\* times (1, 2, 4 for max_retries = 3, delay = 1).
C2_BackoffDelays ==
    /\ \A i \in 1..Len(r_sleeps) : r_sleeps[i] = r_cfg.delay * (2 ^ (i - 1))
    /\ Len(r_sleeps) <= r_cfg.max_retries
    /\ r_pc \in {"raised", "returned"} => Len(r_sleeps) = r_calls - 1
    /\ r_pc = "sleeping" => Len(r_sleeps) = r_calls - 1
    /\ r_pc = "attempt" => Len(r_sleeps) = r_calls

\* the delays recorded for max_retries = 3, delay = 1 are exactly 1, 2, 4
C2_Witness ==
    /\ r_pc = "raised"
    /\ r_cfg.max_retries = 3
    /\ r_cfg.delay = 1
    /\ r_sleeps = <<1, 2, 4>>

\* the caller is the item's owner or a superuser
C3_MayModify(item, caller) == item.owner_id = caller.id \/ caller.is_superuser

\* the content checks of an update body pass
C3_BodyValid(body) == body.title # "bad" /\ body.description # "bad"

\* C3: update_item and delete_item change the table only for the owner of
\* the item or a superuser.  In every step, with r the response it leaves:
\* the table changes under an update or delete only in the addressed row and
\* only when the caller may modify it; a caller who is neither owner nor
\* superuser is answered "unauthorized" and the whole row (is_active and
\* updated_at included) stays as it was; the owner and any superuser are
\* never answered "unauthorized": their delete succeeds and clears
\* is_active, their update succeeds whenever its content is valid and then
\* stores the supplied title.
C3_OwnerOrSuperuser ==
    [][LET r == item_resp'
       IN  (r.op \in {"update", "delete"} /\ r.id \in DOMAIN items) =>
              /\ DOMAIN items' = DOMAIN items
              /\ \A j \in DOMAIN items : j # r.id => items'[j] = items[j]
              /\ IF C3_MayModify(items[r.id], r.caller)
                 THEN /\ r.op = "delete" =>
                            r.status = "ok" /\ items'[r.id].is_active = FALSE
                      /\ r.op = "update" =>
                            /\ r.status = (IF C3_BodyValid(r.body) THEN "ok" ELSE "bad_request")
                            /\ r.status = "bad_request" => items' = items
                            /\ (r.status = "ok" /\ r.body.title # "unset") =>
                                  items'[r.id].title = r.body.title
                 ELSE r.status = "unauthorized" /\ items' = items
      ]_vars

\* user 2, an ordinary user, has just been refused the update of an item of
\* user 1
C3_Witness ==
    /\ item_resp.op = "update"
    /\ item_resp.status = "unauthorized"
    /\ item_resp.caller = [id |-> 2, is_superuser |-> FALSE]
    /\ item_resp.id \in DOMAIN items
    /\ items[item_resp.id].owner_id = 1
    /\ items[item_resp.id].is_active = TRUE

\* a superuser who does not own the item has deleted it
C3_WitnessSuperuser ==
    /\ item_resp.op = "delete"
    /\ item_resp.status = "ok"
    /\ item_resp.caller.is_superuser
    /\ item_resp.id \in DOMAIN items
    /\ items[item_resp.id].owner_id # item_resp.caller.id
    /\ items[item_resp.id].is_active = FALSE

\* the ids a listing response holds
C4_Listed(resp) == {resp.body.items[k] : k \in DOMAIN resp.body.items}

\* C4: delete_item and activate_item never remove a row: every item ever
\* created is still found by its id (get_item answers "ok" for it); its
\* is_active flag is false exactly when the last successful one of the two
\* operations on it was delete; and an unpaged listing with active_only=true
\* contains the item exactly when is_active is true.
C4_SoftDelete ==
    /\ DOMAIN items = DOMAIN last_toggle
    /\ \A i \in DOMAIN last_toggle :
          /\ FindItem(i) # NoItem
          /\ items[i].is_active = (last_toggle[i] # "delete")
          /\ (item_resp.op = "get" /\ item_resp.id = i) => item_resp.status = "ok"
          /\ (item_resp.op = "list" /\ item_resp.body.active_only /\ item_resp.body.owner_id = 0)
                => (i \in C4_Listed(item_resp) <=> items[i].is_active)

\* an item was deleted, and the active-only listing that followed leaves it out
C4_Witness ==
    /\ item_resp.op = "list"
    /\ item_resp.body.active_only
    /\ item_resp.body.owner_id = 0
    /\ \E i \in DOMAIN items :
          /\ last_toggle[i] = "delete"
          /\ items[i].is_active = FALSE
          /\ i \notin C4_Listed(item_resp)

\* the ids of the rows of a store that hold the email
C5_RowsOf(store, email) == {i \in DOMAIN store : store[i].email = email}

\* request r1 is the first registration of its email: it is complete, and
\* every other request for that email began after r1 had completed
C5_First(r1) ==
    /\ reg[r1].pc = "done"
    /\ \A q \in Regs \ {r1} :
          (reg[q].pc # "idle" /\ reg[q].email = reg[r1].email) => r1 \in reg[q].done_before

\* C5: of two registrations with the same email issued one after the other,
\* the first succeeds and the second is rejected as a duplicate, and the
\* store then holds exactly one row for the email, with the password hash
\* and the name of the first registration.  POST /register: the second
\* request is answered "email already registered" and the only row is the
\* one the first request wrote.  POST /users/: no email ever has two rows,
\* and the row of an email keeps the data of the first accepted
\* registration, so a later registration of the email was refused.
C5_DuplicateEmail ==
    /\ \A r1 \in Regs, r2 \in Regs :
          (/\ r1 # r2
           /\ C5_First(r1)
           /\ reg[r2].pc = "done"
           /\ reg[r2].email = reg[r1].email
           /\ r1 \in reg[r2].done_before)
          => /\ reg[r1].status = "ok"
             /\ reg[r2].status = "email_taken"
             /\ C5_RowsOf(users_table, reg[r1].email) = {reg[r1].user_id}
             /\ users_table[reg[r1].user_id] =
                   [email |-> reg[r1].email,
                    password_hash |-> hash_password(reg[r1].password),
                    full_name |-> reg[r1].full_name]
    /\ \A e \in Emails :
          /\ Cardinality(C5_RowsOf(orm_users, e)) <= 1
          /\ (first_reg[e] = NoRegData) = (C5_RowsOf(orm_users, e) = {})
          /\ \A i \in C5_RowsOf(orm_users, e) :
                /\ orm_users[i].full_name = first_reg[e].full_name
                /\ orm_users[i].hashed_password = first_reg[e].hashed_password
    /\ orm_resp.status = "duplicate_email" => C5_RowsOf(orm_users, orm_resp.email) # {}

\* request 2 repeated the email of the completed request 1 with another
\* password and name and was refused; the table holds the row of request 1
C5_Witness ==
    /\ reg[1].status = "ok"
    /\ reg[2].status = "email_taken"
    /\ 1 \in reg[2].done_before
    /\ reg[2].email = reg[1].email
    /\ reg[2].password # reg[1].password
    /\ Len(users_table) = 1
    /\ users_table[1].password_hash = hash_password(reg[1].password)

\* the token at hand decodes with the secret at the time of the last
\* verification: well-formed, signed with SECRET_KEY, and not yet expired
C7_Decodes ==
    /\ tok.form = "jwt"
    /\ tok.key = SECRET_KEY
    /\ "exp" \in DOMAIN tok.claims => tok.claims.exp >= v_result.at

\* C7: verify_token returns the subject of an unexpired token issued by
\* create_access_token for that subject (in particular when it is verified
\* right after being issued with the default lifetime), and answers 401,
\* returning nothing, for a token whose expiry lies in the past, a token
\* without a subject claim and a token that does not decode.
C7_VerifyToken ==
    v_result.fn = "verify_token" =>
        /\ (/\ tok.issued_by = "create_access_token"
            /\ "sub" \in DOMAIN tok.claims
            /\ tok.claims.exp >= v_result.at)
           => (v_result.outcome = "returned" /\ v_result.value = tok.claims.sub)
        /\ (/\ tok.issued_by = "create_access_token"
            /\ "sub" \in DOMAIN tok.claims
            /\ tok.claims.exp = tok.issued_at + ACCESS_TOKEN_EXPIRE_MINUTES
            /\ v_result.at = tok.issued_at)
           => (v_result.outcome = "returned" /\ v_result.value = tok.claims.sub)
        /\ (~C7_Decodes \/ "sub" \notin DOMAIN tok.claims)
           => (v_result.outcome = "HTTP_401" /\ v_result.value = None)
        /\ v_result.outcome = "returned" => v_result.value \in Subjects

\* a token issued for "alice" with the default lifetime was verified in the
\* same minute and gave back "alice"
C7_Witness ==
    /\ v_result.fn = "verify_token"
    /\ v_result.outcome = "returned"
    /\ v_result.value = "alice"
    /\ tok.issued_by = "create_access_token"
    /\ tok.claims.exp = tok.issued_at + ACCESS_TOKEN_EXPIRE_MINUTES
    /\ v_result.at = tok.issued_at

\* a token of create_access_token whose expiry lies in the past was refused
C7_WitnessExpired ==
    /\ v_result.fn = "verify_token"
    /\ v_result.outcome = "HTTP_401"
    /\ tok.issued_by = "create_access_token"
    /\ "sub" \in DOMAIN tok.claims
    /\ tok.claims.exp < v_result.at

\* C8: verify_reset_token never raises; it returns the email of an unexpired
\* token issued by generate_reset_token for that email, and the absent value
\* for every token that is undecodable, expired, without subject, without
\* type claim or of a type other than "reset"; in particular for every token
\* issued by create_access_token.
C8_VerifyResetToken ==
    v_result.fn = "verify_reset_token" =>
        /\ v_result.outcome = "returned"
        /\ (tok.issued_by = "generate_reset_token" /\ tok.claims.exp >= v_result.at)
           => v_result.value = tok.claims.sub
        /\ (\/ ~C7_Decodes
            \/ "sub" \notin DOMAIN tok.claims
            \/ "type" \notin DOMAIN tok.claims
            \/ ("type" \in DOMAIN tok.claims /\ tok.claims.type # "reset"))
           => v_result.value = None
        /\ tok.issued_by = "create_access_token" => v_result.value = None

\* a valid access token for "alice" was offered as a reset token and was not
\* accepted
C8_Witness ==
    /\ v_result.fn = "verify_reset_token"
    /\ v_result.outcome = "returned"
    /\ v_result.value = None
    /\ tok.issued_by = "create_access_token"
    /\ "sub" \in DOMAIN tok.claims
    /\ tok.claims.exp >= v_result.at

\* a reset token issued for "user@example.com" verified back to that email
C8_WitnessRoundTrip ==
    /\ v_result.fn = "verify_reset_token"
    /\ v_result.value = "user@example.com"
    /\ tok.issued_by = "generate_reset_token"

\* C6 (as the specification states it): with the extension absent the three
\* parameter validators raise and return nothing, while jsonable_encoder,
\* serialize_response and constant_time_compare return the result of their
\* Python implementation.
C6_AbsentExtension ==
    ExtensionAbsent =>
        /\ call_result.fn \in ValidatorNames =>
              call_result.outcome \notin {"returned", "none"}
        /\ call_result.fn \in {"jsonable_encoder", "serialize_response",
                               "constant_time_compare"} =>
              (call_result.outcome = "returned" /\ call_result.path = "python")

\* with the extension absent, jsonable_encoder("a") ended in AttributeError
C6_Escapes ==
    /\ ExtensionAbsent
    /\ call_result.fn = "jsonable_encoder"
    /\ call_result.args = <<StrV("a"), FALSE>>
    /\ call_result.outcome = "AttributeError"

\* the string holds a component: digits, optional white space, a unit letter
C9_HasComponent(s) ==
    \E i \in 1..Len(s) : \E j \in i..Len(s) : \E k \in (j + 1)..Len(s) :
        /\ \A p \in i..j : s[p] \in DurDigits
        /\ \A p \in (j + 1)..(k - 1) : s[p] \in DurSpace
        /\ Lower(s[k]) \in {"d", "h", "m", "s"}

\* C9 (as the specification states it): parse_duration returns a number of
\* seconds only for an input in which at least one component Nd, Nh, Nm, Ns
\* is recognized, and raises the invalid-format error for every other input.
C9_RaisesWithoutComponent ==
    d_call.outcome # "none" =>
        (d_call.outcome = "returned" => C9_HasComponent(d_call.input))

\* parse_duration("") returned 0 seconds
C9_EmptyReturns ==
    /\ d_call.input = <<>>
    /\ d_call.outcome = "returned"
    /\ d_call.value = 0

\* what exclude_none=true leaves of a mapping: exactly the keys whose value
\* is not None, a primitive value unchanged, a nested mapping treated alike
RECURSIVE C10_Pruned(_, _)
C10_Pruned(obj, res) ==
    /\ res.t = "dict"
    /\ DOMAIN res.v = {k \in DOMAIN obj.v : obj.v[k] # NoneV}
    /\ \A k \in DOMAIN res.v :
          /\ res.v[k] # NoneV
          /\ IsPrimitive(obj.v[k]) => res.v[k] = obj.v[k]
          /\ obj.v[k].t = "dict" => C10_Pruned(obj.v[k], res.v[k])

\* C10: the Python implementation of jsonable_encoder returns a string, an
\* integer, a boolean and None unchanged, and with exclude_none=true it
\* returns for a mapping exactly the keys whose encoded value is not None,
\* each with its encoded value, nested mappings being treated the same way.
C10_PythonEncoder ==
    (call_result.fn = "jsonable_encoder" /\ call_result.path = "python") =>
        LET obj == call_result.args[1]
            exclude_none == call_result.args[2]
            res == call_result.value
        IN  /\ obj \in Prims => res = obj
            /\ (obj.t = "dict" /\ exclude_none) => C10_Pruned(obj, res)

\* a mapping with a None entry, a kept entry and a nested mapping that
\* itself holds a None entry was encoded in Python with exclude_none=true
C10_Witness ==
    /\ call_result.fn = "jsonable_encoder"
    /\ call_result.path = "python"
    /\ call_result.args = <<DictV([k1 |-> NoneV,
                                   k2 |-> DictV([k1 |-> NoneV, k2 |-> IntV(1)])]), TRUE>>
    /\ call_result.value = DictV([k2 |-> DictV([k2 |-> IntV(1)])])

\* the rendering C11 describes: a primitive as it is, a mapping as the
\* Python implementation encodes it, every sequence-like container as the
\* list of the renderings of its elements
RECURSIVE C11_Rendered(_, _)
C11_Rendered(obj, exclude_none) ==
    IF IsPrimitive(obj) THEN obj
    ELSE IF obj.t = "dict" THEN PyEncode(obj, exclude_none)
    ELSE SeqV("list", [i \in 1..Len(obj.v) |-> C11_Rendered(obj.v[i], exclude_none)])

\* C11 (as the specification states it): the Python implementation renders
\* every sequence-like container (list, set, frozenset, tuple, deque,
\* generator) as a list holding, element for element in iteration order, the
\* recursive encodings of the container's elements.
C11_SequencesAsLists ==
    (/\ call_result.fn = "jsonable_encoder"
     /\ call_result.path = "python"
     /\ call_result.args[1].t \in SeqKinds \cup {"generator"})
    => call_result.value = C11_Rendered(call_result.args[1], call_result.args[2])

\* a generator yielding the tuple (1,) was encoded to a list that still
\* holds the tuple
C11_GeneratorNotEncoded ==
    /\ call_result.fn = "jsonable_encoder"
    /\ call_result.path = "python"
    /\ call_result.args[1] = SeqV("generator", <<SeqV("tuple", <<IntV(1)>>)>>)
    /\ call_result.value = SeqV("list", <<SeqV("tuple", <<IntV(1)>>)>>)

\* the same holds of the containers that are not generators
C11_NonGenerators ==
    (/\ call_result.fn = "jsonable_encoder"
     /\ call_result.path = "python"
     /\ call_result.args[1].t \in SeqKinds)
    => call_result.value = C11_Rendered(call_result.args[1], call_result.args[2])

\* ---- C12 ----

\* the pattern a fallback compilation returned
C12_PatternOf(result) ==
    IF result.fn = "compile_path_regex" THEN result.value ELSE result.value.path_regex

C12_IsFallbackOf(result, fns, template) ==
    /\ result.fn \in fns
    /\ result.path = "python"
    /\ result.args = <<template>>

C12_MatchesAsClaimed(pattern) ==
    /\ re_match(pattern, R_items_42) =
          [outcome |-> "match",
           groups |-> <<<< <<"i", "t", "e", "m", "_", "i", "d">>, <<"4", "2">> >>>>]
    /\ re_match(pattern, R_items_slash).outcome = "None"

\* C12: the pattern that the fallback path compilation returns for
\* /items/{item_id} matches /items/42 with item_id = "42" and does not match
\* /items/, for APIRoute._compile_path as well as for the bridge's
\* compile_path_regex
C12_FallbackPattern ==
    C12_IsFallbackOf(call_result, {"compile_path_regex", "APIRoute._compile_path"},
                     T_items_id)
        => C12_MatchesAsClaimed(C12_PatternOf(call_result))

\* the part of C12 that the code keeps: the bridge's compile_path_regex
C12_BridgeFallbackPattern ==
    C12_IsFallbackOf(call_result, {"compile_path_regex"}, T_items_id)
        => /\ call_result.value = <<"^">> \o T_items \o <<"/">>
                  \o Group(<<"i", "t", "e", "m", "_", "i", "d">>, DefaultParamPattern)
                  \o <<"$">>
           /\ C12_MatchesAsClaimed(call_result.value)

\* the state C12 fails in: APIRoute._compile_path returns ^(?P<item_id>[^/]+)$,
\* which has lost the literal /items/ and does not match /items/42
C12_RouteDropsLiterals ==
    /\ C12_IsFallbackOf(call_result, {"APIRoute._compile_path"}, T_items_id)
    /\ call_result.value.path_regex =
          <<"^">> \o Group(<<"i", "t", "e", "m", "_", "i", "d">>, DefaultParamPattern)
              \o <<"$">>
    /\ re_match(call_result.value.path_regex, R_items_42).outcome = "None"
    /\ re_match(call_result.value.path_regex, <<"4", "2">>).outcome = "match"

\* ---- C13 ----
\* the step is a call that took the Python fallback of n (validate_query_params
\* falls back through validate_path_params)
C13_FellBack(n) ==
    /\ call_result'.path = "python"
    /\ \/ call_result'.fn = n
       \/ n = "validate_path_params" /\ call_result'.fn = "validate_query_params"

\* C13: over any sequence of calls of the bridge's functions the fallback
\* warning is emitted at most once for a function name: a fallback for a name
\* that has been warned about emits nothing, and a fallback for a name that
\* has not been warned about emits its warning whatever other names have
\* been warned about
C13_WarnOncePerName ==
    [][\A n \in FallbackNames :
          /\ warnings_emitted'[n] <= 1
          /\ warnings_emitted'[n] >= warnings_emitted[n]
          /\ C13_FellBack(n) =>
                warnings_emitted'[n] = IF warnings_emitted[n] = 0 THEN 1 ELSE warnings_emitted[n]
          /\ ~C13_FellBack(n) => warnings_emitted'[n] = warnings_emitted[n]]_vars

\* validate_path_params falls back after validate_query_params has already
\* warned for both names, and compile_path_regex has warned as well
C13_Witness ==
    /\ call_result.fn = "validate_path_params"
    /\ call_result.path = "python"
    /\ warnings_emitted = [n \in FallbackNames |-> 1]
    /\ FALLBACK_WARNINGS_SHOWN = FallbackNames

\* ---- C14 ----
\* C14: once the loader has computed the availability, with either outcome,
\* the calls that follow reuse it and neither import nor initialize the
\* extension again, until cleanup is called
C14_ComputedOnce ==
    [][(load_computed /\ call_result'.fn # "cleanup_rust_resources")
          => load_steps' = {}]_vars

\* the part of C14 that the code keeps: a successful load is cached
C14_LoadedIsCached ==
    [][(RUST_LOADED /\ call_result'.fn # "cleanup_rust_resources")
          => (load_steps' = {} /\ RUST_LOADED')]_vars

\* the state C14 fails in: the loader has run before, nothing is cached and
\* the last call has imported again
C14_ImportedAgain ==
    /\ load_computed
    /\ ~RUST_LOADED
    /\ call_result.fn = "validate_path_params"
    /\ FALLBACK_WARNINGS_SHOWN = FallbackNames
    /\ "import" \in load_steps

\* ---- C15 ----
\* the installation is one whose load fails: the import fails, or the
\* initialization routine raises or reports failure
C15_ImportFails == ext.import # "ok"
C15_InitRaises == ext.import = "ok" /\ ext.init = "raises"
C15_InitReportsFailure == ext.import = "ok" /\ ext.init = "false"

C15_Unavailable ==
    /\ ~RUST_LOADED
    /\ call_result.outcome = "returned"
    /\ call_result.path = "python"

\* C15: after a call of a bridge function under an installation whose load
\* fails in any of the three ways, the bridge is unavailable, the call has
\* returned the result of the Python fallback and nothing was raised
C15_FailureMeansUnavailable ==
    (call_result.fn \in FallbackNames
        /\ (C15_ImportFails \/ C15_InitRaises \/ C15_InitReportsFailure))
        => C15_Unavailable

\* the part of C15 that the code keeps: a failing import and a raising
\* initialization
C15_ImportOrRaise ==
    (call_result.fn \in FallbackNames /\ (C15_ImportFails \/ C15_InitRaises))
        => C15_Unavailable

\* the state C15 fails in: init_rust_backend() returned False and the
\* module is cached as loaded, its function answering the call
C15_LoadedAfterFailedInit ==
    /\ C15_InitReportsFailure
    /\ call_result.fn = "compile_path_regex"
    /\ call_result.path = "native"
    /\ RUST_LOADED
    /\ RUST_MODULE = TheModule

\* ---- C16 ----
\* C16: after cleanup_rust_resources the availability flag is back to not
\* loaded, no native module is cached and no function name is remembered as
\* warned about, whether the native cleanup hook returned or raised
C16_CleanupClearsAll ==
    call_result.fn = "cleanup_rust_resources"
        => /\ ~RUST_LOADED
           /\ RUST_MODULE = NoModule
           /\ ~load_computed
           /\ FALLBACK_WARNINGS_SHOWN = {}

\* the part of C16 that the code keeps: the two loader globals are reset,
\* also when the cleanup hook raised
C16_LoaderReset ==
    call_result.fn = "cleanup_rust_resources"
        => /\ ~RUST_LOADED
           /\ RUST_MODULE = NoModule
           /\ ~load_computed

\* the state C16 fails in: cleanup has run, its hook has raised, and the
\* names warned about before are still remembered
C16_WarnedNamesSurvive ==
    /\ call_result.fn = "cleanup_rust_resources"
    /\ call_result.value = <<"hook raised">>
    /\ ~RUST_LOADED
    /\ "validate_query_params" \in FALLBACK_WARNINGS_SHOWN

\* ---- C17 ----
\* the rows task t has written through the wrapper inside its block
C17_RowsOf(t) == {<<t, k>> : k \in 1..task[t].wrote}

\* C17: a block that completed normally has its writes committed, and a
\* block that raised has been rolled back: none of the writes it made through
\* the yielded wrapper is in the database
C17_Transaction ==
    \A t \in Tasks :
        /\ task[t].pc = "committed" => C17_RowsOf(t) \subseteq db_file
        /\ task[t].pc = "failed" => C17_RowsOf(t) \cap db_file = {}

\* the part of C17 that the code keeps: commit on success; on an error the
\* connection of the block has nothing pending and the block is not run again
C17_CommitsOnSuccess ==
    \A t \in Tasks :
        /\ task[t].pc = "committed" => C17_RowsOf(t) \subseteq db_file
        /\ task[t].pc \in {"committed", "failed"} => db_pending[task[t].conn] = {}

\* the state C17 fails in: the block of task 1 has raised after one write,
\* and the write is in the database
C17_FailedBlockPersisted ==
    /\ task[1].pc = "failed"
    /\ task[1].wrote = 1
    /\ <<1, 1>> \in db_file

\* ---- C20 ----
\* C20: every connection that was opened was assigned to _connection, which
\* refers to the one assigned last; the tasks that found the connection absent
\* open one each, and a connection assigned earlier is known only to the
\* task that opened it
C20_LastStoredRemains ==
    /\ db_opened = Len(db_stores)
    /\ db_connection = IF db_stores = <<>> THEN NoConn ELSE db_stores[Len(db_stores)]
    /\ \A t \in Tasks : task[t].pc = "connecting" => db_opened < NumTasks
    /\ \A t \in Tasks :
          task[t].conn # NoConn =>
             \/ task[t].conn = db_connection
             \/ \E i \in 1..(Len(db_stores) - 1) : db_stores[i] = task[t].conn

\* both tasks have passed the check before either assigned: two connections
\* are open, the wrapper refers to the second, the first is left with the
\* task that opened it
C20_Witness ==
    /\ db_opened = 2
    /\ Len(db_stores) = 2
    /\ db_connection = db_stores[2]
    /\ \E t \in Tasks : task[t].conn = db_stores[1] /\ task[t].conn # db_connection
    /\ \E t \in Tasks : task[t].conn = db_connection

\* ---- C18 ----
\* the user a token was issued to by login: the id login wrote as its subject
C18_UserOf(token) == SqlInteger(StrV(token.claims.sub))

\* C18: GET /users/me with a token that login returned for user u answers
\* with u's profile (id, email, full name), and with 404 only if no row has
\* that id
C18_WhoAmI ==
    (web_resp.op = "get_current_user" /\ web_resp.token \in issued_tokens)
        => IF C18_UserOf(web_resp.token) \in DOMAIN users_table
           THEN /\ web_resp.status = "HTTP_200"
                /\ web_resp.body = UserResponse(C18_UserOf(web_resp.token))
           ELSE web_resp.status = "HTTP_404"

\* the part of C18 that the code keeps: login with the registered
\* credentials returns the user's profile and a token that verifies to the
\* decimal text of the user's id
C18_LoginKeyedOnUserId ==
    (web_resp.op = "login" /\ web_resp.status = "HTTP_200")
        => /\ web_resp.body.user.id \in DOMAIN users_table
           /\ web_resp.body.user = UserResponse(web_resp.body.user.id)
           /\ web_resp.body.user.email = web_resp.req[1]
           /\ verify_token(web_resp.body.access_token, now) =
                 [outcome |-> "returned", value |-> str(web_resp.body.user.id)]

\* the state C18 fails in: the token login returned for the registered user
\* is presented and the handler ends in the binding error of sqlite3
C18_WhoAmIRaises ==
    /\ web_resp.op = "get_current_user"
    /\ web_resp.token \in issued_tokens
    /\ C18_UserOf(web_resp.token) \in DOMAIN users_table
    /\ web_resp.status = "InterfaceError"

\* ---- C19 ----
\* C19: GET /files/{file_id} of a stored file answers an authenticated
\* caller with the record if the caller is the user the file belongs to and
\* with 404 otherwise; an upload whose expected_hash differs from the
\* computed hash is answered with 400 and stores nothing
C19_FilesScopedToOwner ==
    [][/\ (/\ web_resp'.op = "get_file_info"
           /\ web_resp'.token \in issued_tokens
           /\ web_resp'.req[1] \in DOMAIN files_table)
          => IF files_table[web_resp'.req[1]].user_id = C18_UserOf(web_resp'.token)
             THEN /\ web_resp'.status = "HTTP_200"
                  /\ web_resp'.body = FileResponse(web_resp'.req[1])
             ELSE web_resp'.status = "HTTP_404"
       /\ (/\ web_resp'.op = "upload_file"
           /\ web_resp'.token \in issued_tokens
           /\ web_resp'.req[3] # <<>>
           /\ web_resp'.req[3] # calculate_file_hash(web_resp'.req[2]))
          => /\ web_resp'.status = "HTTP_400"
             /\ files_table' = files_table]_vars

\* the part of C19 that the code keeps: no caller is shown a file of another
\* user, and an upload with a mismatching expected_hash is answered with 400
\* and stores nothing
C19_MismatchRejected ==
    [][/\ (web_resp'.op = "get_file_info" /\ web_resp'.status = "HTTP_200")
          => /\ web_resp'.token \in issued_tokens
             /\ files_table[web_resp'.req[1]].user_id = C18_UserOf(web_resp'.token)
       /\ (/\ web_resp'.op = "upload_file"
           /\ web_resp'.token \in issued_tokens
           /\ web_resp'.req[3] # <<>>
           /\ web_resp'.req[3] # calculate_file_hash(web_resp'.req[2]))
          => /\ web_resp'.status = "HTTP_400"
             /\ files_table' = files_table]_vars

\* the state C19 fails in: the owner of a stored file asks for it with the
\* token login returned and the handler ends in the binding error of sqlite3
C19_OwnerRefused ==
    /\ web_resp.op = "get_file_info"
    /\ web_resp.token \in issued_tokens
    /\ web_resp.req[1] \in DOMAIN files_table
    /\ files_table[web_resp.req[1]].user_id = C18_UserOf(web_resp.token)
    /\ web_resp.status = "InterfaceError"

\* C21: when the endpoint raises an HTTP error, the caller of
\* _handle_request observes that very error, status and detail unchanged;
\* when it raises anything else, the caller observes an HTTP error with
\* status 500 whose detail is the text of the original exception.
C21_EndpointErrorHandling ==
    (http_result.endpoint_called /\ http_result.behaviour.kind = "raises") =>
        /\ http_result.outcome = "raised"
        /\ IF http_result.behaviour.exc.cls = "HTTPException"
           THEN http_result.exc = http_result.behaviour.exc
           ELSE http_result.exc = HTTPException(500, http_result.behaviour.exc.detail)

\* an endpoint raised ValueError and the caller saw status 500 carrying its text
C21_Witness ==
    /\ http_result.endpoint_called
    /\ http_result.behaviour.exc.cls = "ValueError"
    /\ http_result.exc.cls = "HTTPException"
    /\ http_result.exc.status_code = 500
    /\ http_result.exc.detail = "invalid literal"

\* C22: when dependency resolution reports errors, the endpoint is not
\* invoked and the caller observes the structured validation error that
\* carries those errors, not a generic 500.
C22_ValidationErrorObserved ==
    http_result.errors # <<>> =>
        /\ ~http_result.endpoint_called
        /\ http_result.outcome = "raised"
        /\ http_result.exc = RequestValidationError(http_result.errors)

\* the part of C22 the code keeps: the endpoint is not invoked
C22_EndpointNotInvoked ==
    http_result.errors # <<>> => ~http_result.endpoint_called

\* what the caller observes instead: status 500 with the rendered error list
C22_ObservedAs500 ==
    /\ http_result.errors # <<>>
    /\ http_result.exc = HTTPException(500, ToString(http_result.errors))

\* C23: in the WebSocket route, a failure of dependency resolution or of the
\* endpoint makes the route close the socket with code 1011 before the error
\* reaches the caller; after an endpoint that finished without error the
\* route has not closed the socket; dependency errors keep the endpoint from
\* being invoked.
C23_WebSocketFailureCloses ==
    /\ ws.pc = "raised" => (ws.closes = <<1011>> /\ ws.raised = ws.exc
                            /\ ws.raised # NoException)
    /\ ws.pc = "done" => (ws.closes = <<>> /\ ws.endpoint_called)
    /\ ws.errors # <<>> => ~ws.endpoint_called
    /\ ws.exc # NoException => ws.pc \in {"except", "reraise", "raised"}

\* an endpoint failure reached the caller after the socket was closed with 1011
C23_Witness ==
    /\ ws.pc = "raised"
    /\ ws.endpoint_called
    /\ ws.closes = <<1011>>

\* C24: load_params_schema returns the content of the schema file at the
\* requested path as of its current modification time: the empty schema for
\* a missing file, the file's (parsable) content otherwise, whether it was
\* read anew or answered from the cache.
C24_ReturnsFileAtPath ==
    load_result.path # "none" =>
        IF ~load_result.file.exists
        THEN load_result.value = EmptySchema /\ ~load_result.read
        ELSE load_result.file.content # "malformed" =>
                load_result.value = load_result.file.content

\* what C24 claims and the code keeps as long as one path is used: a missing
\* file yields the empty schema without a read, and a forced load returns
\* the file's content
C24_MissingOrForced ==
    load_result.path # "none" =>
        /\ ~load_result.file.exists =>
              (load_result.value = EmptySchema /\ ~load_result.read)
        /\ (load_result.file.exists /\ load_result.force_reload
              /\ load_result.file.content # "malformed") =>
              (load_result.read /\ load_result.value = load_result.file.content)

\* a load answered from the cache with the content of the other file
C24_OtherFilesContent ==
    /\ load_result.path # "none"
    /\ load_result.file.exists
    /\ ~load_result.read
    /\ load_result.file.content \in {"schema_1", "schema_2"}
    /\ load_result.value # load_result.file.content
    /\ \E p \in SchemaPaths \ {load_result.path} :
           fs[p].exists /\ fs[p].content = load_result.value

\* C25: after any sequence of registrations and inclusions, every parent's
\* route list holds, in order, its own routes and for each inclusion the
\* child's routes with path prefix + registered path, each matching request
\* paths under that prefixed path, and its startup and shutdown hooks are
\* its own followed by the child's for each inclusion; also when the child
\* is included more than once or into several parents.
C25_InclusionAsClaimed ==
    \A p \in ParentRouters :
        /\ Len(routers[p].routes) = Len(included[p].paths)
        /\ \A k \in 1..Len(routers[p].routes) :
              /\ route_objs[routers[p].routes[k]].path = included[p].paths[k]
              /\ route_objs[routers[p].routes[k]].path_regex = included[p].paths[k]
        /\ routers[p].on_startup = included[p].on_startup
        /\ routers[p].on_shutdown = included[p].on_shutdown

\* the part of C25 the code keeps: the number of routes added and the hooks
C25_CountAndHooks ==
    \A p \in ParentRouters :
        /\ Len(routers[p].routes) = Len(included[p].paths)
        /\ routers[p].on_startup = included[p].on_startup
        /\ routers[p].on_shutdown = included[p].on_shutdown

\* a single inclusion under a prefix: the route's path is prefixed, its
\* path_regex still matches the unprefixed path
C25_RegexNotPrefixed ==
    /\ includes = 1
    /\ \E p \in ParentRouters : \E k \in 1..Len(routers[p].routes) :
          LET route == route_objs[routers[p].routes[k]]
          IN  route.path = included[p].paths[k] /\ route.path_regex # route.path

\* the child included under /v1 and then under /v2: both entries are the
\* same object, whose path is /v2/v1/items
C25_PrefixesAccumulate ==
    \E p \in ParentRouters : \E k \in 1..Len(routers[p].routes) :
        /\ included[p].paths[k] = <<"v1", "items">>
        /\ route_objs[routers[p].routes[k]].path = <<"v2", "v1", "items">>

\* ---- C26 ----
R_42 == <<"/", "4", "2">>
R_ab == <<"/", "a", "b">>

\* the pattern holds the group (?P<a>\d+)
C26_HasCustomGroup(pattern) ==
    \E pos \in 1..Len(pattern) : HasPrefixAt(pattern, pos, Group(<<"a">>, DigitsPattern))

\* C26: the pattern that the fallback path compilation returns for
\* /{a:\d+} holds a group named a with the pattern \d+ and matches exactly
\* the paths whose segment matches \d+ (/42 with a = "42", not /ab), for
\* APIRoute._compile_path as well as for the bridge's compile_path_regex
C26_CustomPattern ==
    C12_IsFallbackOf(call_result, {"compile_path_regex", "APIRoute._compile_path"},
                     T_digits)
        => /\ C26_HasCustomGroup(C12_PatternOf(call_result))
           /\ re_match(C12_PatternOf(call_result), R_42) =
                 [outcome |-> "match", groups |-> <<<< <<"a">>, <<"4", "2">> >>>>]
           /\ re_match(C12_PatternOf(call_result), R_ab).outcome = "None"

\* the part of C26 that APIRoute._compile_path keeps: the group carries the
\* custom pattern
C26_RouteKeepsCustomGroup ==
    C12_IsFallbackOf(call_result, {"APIRoute._compile_path"}, T_digits)
        => call_result.value.path_regex =
              <<"^">> \o Group(<<"a">>, DigitsPattern) \o <<"$">>

\* the bridge's compile_path_regex returns ^/(?P<a>[^/]+)$ for /{a:\d+},
\* which matches /ab
C26_BridgeIgnoresPattern ==
    /\ C12_IsFallbackOf(call_result, {"compile_path_regex"}, T_digits)
    /\ call_result.value = <<"^", "/">> \o Group(<<"a">>, DefaultParamPattern) \o <<"$">>
    /\ re_match(call_result.value, R_ab).outcome = "match"

\* APIRoute._compile_path returns ^(?P<a>\d+)$ for /{a:\d+}, which has lost
\* the leading / and does not match /42
C26_RouteDropsSlash ==
    /\ C12_IsFallbackOf(call_result, {"APIRoute._compile_path"}, T_digits)
    /\ re_match(call_result.value.path_regex, R_42).outcome = "None"
    /\ re_match(call_result.value.path_regex, <<"4", "2">>).outcome = "match"

\* the delays of a retry loop that ran out: delay * 2^(i-1), i = 1..max_retries
C27_AllDelays(f) == [i \in 1..f.max_retries |-> f.delay * (2 ^ (i - 1))]

\* C27: for an async wrapped function the decorators select the
\* asynchronous wrapper, and by the time the error of an always-failing
\* async function reaches the caller under retry_decorator, the function has
\* run max_retries + 1 times with the backoff delays of the synchronous case
\* in between.
C27_AsyncLikeSync ==
    /\ (a_func.is_async /\ a_wrapper # "none") => a_wrapper = "async_wrapper"
    /\ (a_func.is_async /\ a_func.decorator = "retry" /\ a_pc = "raised") =>
          /\ a_runs = a_func.max_retries + 1
          /\ a_sleeps = C27_AllDelays(a_func)

\* the synchronous case C27 refers to
C27_SyncCase ==
    (~a_func.is_async /\ a_func.decorator = "retry" /\ a_pc = "raised") =>
        /\ a_wrapper = "sync_wrapper"
        /\ a_runs = a_func.max_retries + 1
        /\ a_sleeps = C27_AllDelays(a_func)

\* an async function under retry_decorator with max_retries = 3: one run, no
\* sleep, the error raised where the caller awaits the returned coroutine
C27_NoRetryForAsync ==
    /\ a_func.is_async /\ a_func.decorator = "retry" /\ a_func.max_retries = 3
    /\ a_wrapper = "sync_wrapper"
    /\ a_pc = "raised"
    /\ a_runs = 1
    /\ a_sleeps = <<>>

\* timing_decorator logs an async function as executed before its body ran
C27_TimingLogsBeforeRun ==
    /\ a_func.is_async /\ a_func.decorator = "timing"
    /\ a_pc = "coroutine_returned"
    /\ a_log = <<"executed">>
    /\ a_runs = 0

\* C28: under any interleaving of register requests, each suspending between
\* its existence check and its INSERT, the users table holds at most one row
\* per email, and two requests for the same email never both end with a
\* stored row.
C28_OneRowPerEmail ==
    /\ \A e \in Emails : Cardinality(C5_RowsOf(users_table, e)) <= 1
    /\ \A r1 \in Regs, r2 \in Regs :
          (/\ r1 # r2
           /\ reg[r1].email = reg[r2].email
           /\ reg[r1].status = "ok")
          => reg[r2].status # "ok"

\* two requests for one email both passed the existence check; the INSERT of
\* one stored the row and the INSERT of the other was refused by the table
C28_Witness ==
    \E r1 \in Regs, r2 \in Regs :
        /\ r1 # r2
        /\ reg[r1].email = reg[r2].email
        /\ reg[r1].status = "ok"
        /\ reg[r2].status = "integrity_error"
        /\ Cardinality(C5_RowsOf(users_table, reg[r1].email)) = 1

\* ---- C29 ----
\* the positions (1-based) of the routes that accept the request
C29_Accepting(path, method, routes) ==
    {i \in 1..Len(routes) :
        /\ method \in routes[i].methods
        /\ re_match(routes[i].path_regex, path).outcome = "match"}

\* C29: the fallback of match_route returns the index (0-based) and the
\* captured parameters of the first route in list order whose method set
\* holds the method and whose pattern matches the path, and None exactly
\* when there is no such route.
C29_FirstMatchWins ==
    (call_result.fn = "match_route" /\ call_result.path = "python") =>
        LET path == call_result.args[1]
            method == call_result.args[2]
            routes == call_result.args[3]
            accepting == C29_Accepting(path, method, routes)
        IN  IF accepting = {}
            THEN call_result.value = NoRouteMatch
            ELSE \E i \in accepting :
                    /\ \A j \in accepting : i <= j
                    /\ call_result.value =
                          RouteMatch(i - 1, re_match(routes[i].path_regex, path).groups)

\* GET /items/42 against [/{a}/{b}, /items/{item_id}]: both accept, the
\* first is returned with a = "items" and b = "42"
C29_Witness ==
    /\ call_result.fn = "match_route" /\ call_result.path = "python"
    /\ call_result.args =
          <<R_items_42, "GET",
            <<Route(T_two_params, {"GET", "POST"}), Route(T_items_id, {"GET"})>> >>
    /\ call_result.value =
          RouteMatch(0, << << <<"a">>, <<"i", "t", "e", "m", "s">> >>,
                           << <<"b">>, <<"4", "2">> >> >>)

\* ---- C30 ----
\* the wrapper has finished a call of a function that first succeeds on
\* attempt k = first_ok <= max_retries: it returned the result of invocation
\* k + 1, after exactly k + 1 invocations and the k sleeps between them; a
\* call ends with an exception only when no attempt within max_retries
\* succeeds
C30_AtTheEnd ==
    /\ r_pc = "returned" =>
          /\ r_cfg.first_ok \in 0..r_cfg.max_retries
          /\ r_result = [kind |-> "value", of_call |-> r_cfg.first_ok + 1]
          /\ r_calls = r_cfg.first_ok + 1
          /\ r_sleeps = [i \in 1..r_cfg.first_ok |-> r_cfg.delay * (2 ^ (i - 1))]
    /\ r_pc = "raised" =>
          (r_cfg.first_ok = NeverSucceeds \/ r_cfg.first_ok > r_cfg.max_retries)

\* once the wrapper has returned, func is not invoked and nothing sleeps
\* until the wrapper is called again
C30_NothingAfterSuccess ==
    r_pc = "returned" =>
        \/ r_pc' = "returned" /\ r_calls' = r_calls /\ r_sleeps' = r_sleeps
        \/ r_pc' = "attempt" /\ r_calls' = 0 /\ r_sleeps' = <<>>

\* C30: a function that first succeeds on attempt k <= max_retries makes
\* the wrapper return that call's result after exactly k + 1 invocations
\* and k sleeps, and no invocation or sleep follows the success.
C30_SuccessOnAttemptK == [](C30_AtTheEnd) /\ [][C30_NothingAfterSuccess]_vars

\* success on the third attempt (k = 2) of a call with max_retries = 3
C30_Witness ==
    /\ r_pc = "returned"
    /\ r_cfg.max_retries = 3
    /\ r_cfg.first_ok = 2
    /\ r_calls = 3
    /\ Len(r_sleeps) = 2

====
